---- MODULE Spec2Model ----
(***************************************************************************)
(* Motion-tracking and velocity-calibration engine of the Prometheus       *)
(* backend: CalibrationManager (calibration_manager.py) and BarbellTracker *)
(* with its websocket command loop (routers/neiro.py).                     *)
(*                                                                         *)
(* Python values are records [k, n, d, s]: k is the kind ("none", "num",   *)
(* "str", "bool"), n/d an exact fraction in lowest terms (d > 0) for a     *)
(* number, s the text of a string.  Python's float arithmetic is modelled  *)
(* by exact rational arithmetic.                                           *)
(***************************************************************************)
EXTENDS Integers, Sequences, FiniteSets, TLC

VARIABLES
    mgr,        \* the CalibrationManager
    cal_ret,    \* the last call on it and its result
    session,    \* the websocket connection: "closed" or "active"
    message,    \* the last message received on it
    tracker,    \* the connection's BarbellTracker
    response,   \* the last JSON object sent to the client
    conn,       \* the websocket connections served by one event loop
    active_trackers,    \* the registry: client_id -> the connection whose tracker it holds
    running,    \* the connection whose handler occupies the event loop, or "none"
    vbt_uploads,    \* upload_id -> the chunk numbers stored and total_chunks
    vbt_tasks,  \* task_id -> status, progress, results, error
    vbt_lock,   \* the unit that holds vbt_lock, or ""
    unit,       \* each coroutine's and the worker's position and locals
    loop,       \* the VBT coroutine that occupies the event loop thread, or "none"
    access,     \* the access of the last step to a shared map, if any
    vbt_ret,    \* the HTTP response returned in the last step, if any
    vel,        \* a processed video: fps, pose data, and the velocity metrics
    direct      \* a tracker called directly, its calls counted, and the last call

calVars == <<mgr, cal_ret>>

trkVars == <<session, message, tracker, response>>

regVars == <<conn, active_trackers, running>>

vbtVars == <<vbt_uploads, vbt_tasks, vbt_lock, unit, loop, access, vbt_ret>>

velVars == <<vel>>

detVars == <<direct>>

vars == <<mgr, cal_ret, session, message, tracker, response, conn, active_trackers, running,
          vbt_uploads, vbt_tasks, vbt_lock, unit, loop, access, vbt_ret, vel, direct>>

(***************************************************************************)
(* Values                                                                  *)
(***************************************************************************)
Abs(i) == IF i < 0 THEN -i ELSE i

RECURSIVE Gcd(_, _)
Gcd(a, b) == IF b = 0 THEN a ELSE Gcd(b, a % b)

None == [k |-> "none", n |-> 0, d |-> 1, s |-> ""]

\* a/b (b # 0) reduced by g, the denominator made positive
Reduced(a, b, g) ==
    [k |-> "num",
     n |-> IF b < 0 THEN -(a \div g) ELSE a \div g,
     d |-> IF b < 0 THEN -(b \div g) ELSE b \div g,
     s |-> ""]

\* the fraction a/b (b # 0) in lowest terms
Frac(a, b) == Reduced(a, b, Gcd(Abs(a), Abs(b)))

Num(i) == [k |-> "num", n |-> i, d |-> 1, s |-> ""]

Str(t) == [k |-> "str", n |-> 0, d |-> 1, s |-> t]

Bool(b) == [k |-> "bool", n |-> IF b THEN 1 ELSE 0, d |-> 1, s |-> ""]

IsNone(v) == v.k = "none"

IsNum(v) == v.k = "num"

\* the least common multiple of the denominators a, b > 0
Lcm(a, b) == (a \div Gcd(a, b)) * b

\* a + b over the common denominator m
AddOver(a, b, m) == Frac(a.n * (m \div a.d) + b.n * (m \div b.d), m)

RAdd(a, b) == AddOver(a, b, Lcm(a.d, b.d))

RNeg(a) == [a EXCEPT !.n = -a.n]

RSub(a, b) == RAdd(a, RNeg(b))

RMul(a, b) == Frac(a.n * b.n, a.d * b.d)

\* a / b for b # 0
RDiv(a, b) == Frac(a.n * b.d, a.d * b.n)

RLeq(a, b) == a.n * b.d <= b.n * a.d

RLess(a, b) == a.n * b.d < b.n * a.d

RIsZero(a) == a.n = 0

(***************************************************************************)
(* CalibrationManager                                                      *)
(***************************************************************************)
\* REFERENCE_OBJECTS: name -> size in meters
REFERENCE_OBJECTS ==
    [weight_plate_45 |-> Frac(45, 100),
     weight_plate_35 |-> Frac(37, 100),
     weight_plate_25 |-> Frac(28, 100),
     barbell_plate   |-> Frac(45, 100),
     yoga_mat        |-> Frac(180, 100),
     doorframe       |-> Frac(200, 100)]

\* BODY_PROPORTIONS["shoulder_to_hip"]
SHOULDER_TO_HIP == Frac(288, 1000)

CalibrationManagerInit ==
    [calibration_method |-> "None",
     calibration_tier   |-> "tier3_relative",
     pixels_per_meter   |-> None,
     confidence         |-> None,
     reference_object   |-> "None",
     user_height_m      |-> None]

\* what a call leaves behind: the manager and the value returned; raised is
\* the exception's class when the call raised instead of returning
Ret(self, v) == [self |-> self, ret |-> v, raised |-> ""]

Raise(self, exc) == [self |-> self, ret |-> None, raised |-> exc]

_use_relative_speed(self) ==
    Ret([self EXCEPT !.pixels_per_meter = None,
                     !.calibration_method = "relative",
                     !.confidence = Frac(50, 100)],
        Str("relative"))

\* depth_data is a dict [average_depth, focal_length], an absent key is None
_calibrate_with_depth(self, depth_data) ==
    LET distance_to_person == IF IsNone(depth_data.average_depth)
                              THEN Num(2) ELSE depth_data.average_depth
        focal_length == IF IsNone(depth_data.focal_length)
                        THEN Num(1000) ELSE depth_data.focal_length
    IN  IF RIsZero(distance_to_person)
        THEN Raise(self, "ZeroDivisionError")
        ELSE Ret([self EXCEPT !.pixels_per_meter = RDiv(focal_length, distance_to_person),
                              !.calibration_method = "lidar",
                              !.confidence = Frac(95, 100)],
                 Str("lidar"))

\* Python's  a or b  on two optional numbers
PyOr(a, b) == IF IsNone(a) \/ (IsNum(a) /\ RIsZero(a)) THEN b ELSE a

\* user_reference is a dict [type, diameter_pixels, height_pixels]
_calibrate_with_user_reference(self, user_reference) ==
    LET ref_type == user_reference.type
        pixels == PyOr(user_reference.diameter_pixels, user_reference.height_pixels)
    IN  IF ref_type \notin DOMAIN REFERENCE_OBJECTS
        THEN _use_relative_speed(self)
        ELSE IF IsNone(pixels)
        THEN Raise(self, "TypeError")
        ELSE Ret([self EXCEPT !.pixels_per_meter = RDiv(pixels, REFERENCE_OBJECTS[ref_type]),
                              !.calibration_method = "reference",
                              !.confidence = Frac(80, 100),
                              !.reference_object = ref_type],
                 Str("reference"))

\* has_depth / has_ref: the optional argument is not None
detect_calibration_method(self, has_depth, depth_data, has_ref, user_reference) ==
    IF has_depth
    THEN _calibrate_with_depth(self, depth_data)
    ELSE IF has_ref
    THEN _calibrate_with_user_reference(self, user_reference)
    ELSE _use_relative_speed(self)

get_calibration_info(self) ==
    IF self.calibration_method = "lidar"
    THEN [tier |-> "pro", method |-> "LiDAR Depth Tracking",
          confidence |-> self.confidence, unit |-> "m/s"]
    ELSE IF self.calibration_method = "reference"
    THEN [tier |-> "calibrated",
          method |-> "Reference Object (" \o self.reference_object \o ")",
          confidence |-> self.confidence, unit |-> "m/s"]
    ELSE [tier |-> "relative", method |-> "Relative Speed Index",
          confidence |-> self.confidence, unit |-> "speed_index"]

is_calibrated(self) == ~IsNone(self.pixels_per_meter)

\* convert_pixels_to_meters guessing one pixel per meter when uncalibrated
convert_guessing(self, pixels) ==
    IF IsNone(self.pixels_per_meter)
    THEN Ret(self, pixels)
    ELSE IF RIsZero(self.pixels_per_meter)
    THEN Raise(self, "ZeroDivisionError")
    ELSE Ret(self, RDiv(pixels, self.pixels_per_meter))

convert_pixels_to_meters(self, pixels) ==
    IF IsNone(self.pixels_per_meter)
    THEN Ret(self, Num(0))
    ELSE IF RIsZero(self.pixels_per_meter)
    THEN Raise(self, "ZeroDivisionError")
    ELSE Ret(self, RDiv(pixels, self.pixels_per_meter))

\* calibrate_from_barbell refusing only box heights below 20
calibrate_from_barbell_below(self, box_height_pixels, plate_diameter_m) ==
    IF RLess(box_height_pixels, Num(20))
    THEN Ret(self, Bool(FALSE))
    ELSE Ret([self EXCEPT !.pixels_per_meter = RDiv(box_height_pixels, plate_diameter_m),
                          !.calibration_method = "barbell",
                          !.calibration_tier = "tier2_reference",
                          !.confidence = Frac(85, 100),
                          !.reference_object = "barbell_plate"],
             Bool(TRUE))

calibrate_from_barbell(self, box_height_pixels, plate_diameter_m) ==
    IF RLeq(box_height_pixels, Num(20))
    THEN Ret(self, Bool(FALSE))
    ELSE Ret([self EXCEPT !.pixels_per_meter = RDiv(box_height_pixels, plate_diameter_m),
                          !.calibration_method = "barbell",
                          !.calibration_tier = "tier2_reference",
                          !.confidence = Frac(85, 100),
                          !.reference_object = "barbell_plate"],
             Bool(TRUE))

\* calibrate_from_user_height falling back to the relative mode when it fails
calibrate_from_user_height_relative(self, user_height_cm, shoulder_to_hip_pixels) ==
    IF RLeq(shoulder_to_hip_pixels, Num(20))
    THEN Ret(_use_relative_speed(self).self, Bool(FALSE))
    ELSE IF RLeq(user_height_cm, Num(0))
    THEN Ret(_use_relative_speed(self).self, Bool(FALSE))
    ELSE LET user_height_m == RDiv(user_height_cm, Num(100))
             expected_shoulder_to_hip_m == RMul(user_height_m, SHOULDER_TO_HIP)
         IN  Ret([self EXCEPT !.user_height_m = user_height_m,
                              !.pixels_per_meter =
                                  RDiv(shoulder_to_hip_pixels, expected_shoulder_to_hip_m),
                              !.calibration_method = "user_height",
                              !.calibration_tier = "tier2_reference",
                              !.confidence = Frac(70, 100),
                              !.reference_object = "body_proportion"],
                 Bool(TRUE))

calibrate_from_user_height(self, user_height_cm, shoulder_to_hip_pixels) ==
    IF RLeq(shoulder_to_hip_pixels, Num(20))
    THEN Ret(self, Bool(FALSE))
    ELSE IF RLeq(user_height_cm, Num(0))
    THEN Ret(self, Bool(FALSE))
    ELSE LET user_height_m == RDiv(user_height_cm, Num(100))
             expected_shoulder_to_hip_m == RMul(user_height_m, SHOULDER_TO_HIP)
         IN  Ret([self EXCEPT !.user_height_m = user_height_m,
                              !.pixels_per_meter =
                                  RDiv(shoulder_to_hip_pixels, expected_shoulder_to_hip_m),
                              !.calibration_method = "user_height",
                              !.calibration_tier = "tier2_reference",
                              !.confidence = Frac(70, 100),
                              !.reference_object = "body_proportion"],
                 Bool(TRUE))

\* the three tiers of calibrate_auto after the LiDAR one
CalibrateAutoTier3(self) ==
    LET r == _use_relative_speed(self)
        s == [r.self EXCEPT !.calibration_tier = "tier3_relative"]
    IN  Ret(s, Str(s.calibration_tier))

CalibrateAutoTier2b(self, user_height_cm, shoulder_to_hip_pixels) ==
    IF ~IsNone(user_height_cm) /\ ~IsNone(shoulder_to_hip_pixels)
    THEN LET r == calibrate_from_user_height(self, user_height_cm, shoulder_to_hip_pixels)
         IN  IF r.ret = Bool(TRUE)
             THEN Ret(r.self, Str(r.self.calibration_tier))
             ELSE CalibrateAutoTier3(r.self)
    ELSE CalibrateAutoTier3(self)

CalibrateAutoTier2a(self, barbell_box_height, user_height_cm, shoulder_to_hip_pixels) ==
    IF ~IsNone(barbell_box_height) /\ RLess(Num(20), barbell_box_height)
    THEN LET r == calibrate_from_barbell(self, barbell_box_height,
                                         REFERENCE_OBJECTS.weight_plate_45)
         IN  IF r.ret = Bool(TRUE)
             THEN Ret(r.self, Str(r.self.calibration_tier))
             ELSE CalibrateAutoTier2b(r.self, user_height_cm, shoulder_to_hip_pixels)
    ELSE CalibrateAutoTier2b(self, user_height_cm, shoulder_to_hip_pixels)

calibrate_auto(self, barbell_box_height, user_height_cm, shoulder_to_hip_pixels, has_depth, depth_data) ==
    IF has_depth
    THEN LET r == _calibrate_with_depth(self, depth_data)
         IN  IF r.raised # ""
             THEN r
             ELSE LET s == [r.self EXCEPT !.calibration_tier = "tier1_lidar"]
                  IN  Ret(s, Str(s.calibration_tier))
    ELSE CalibrateAutoTier2a(self, barbell_box_height, user_height_cm,
                             shoulder_to_hip_pixels)

(***************************************************************************)
(* Calls on the manager.  cal_ret records the last call: its name, its     *)
(* first two arguments, and what it returned or raised; for calibrate_auto *)
(* also shoulder_to_hip_pixels (c) and depth_data.                         *)
(***************************************************************************)
NoInfo == [tier |-> "", method |-> "", confidence |-> None, unit |-> ""]

NoDepth == [average_depth |-> None, focal_length |-> None]

Called(op, a, b, r) ==
    [op |-> op, a |-> a, b |-> b, c |-> None, has_depth |-> FALSE, depth_data |-> NoDepth,
     ret |-> r.ret, raised |-> r.raised, info |-> NoInfo]

\* box heights and shoulder-to-hip distances in pixels, around the limit of 20
BoxHeights == {Num(0), Num(20), Frac(201, 10), Num(21), Num(100)}

ShoulderPixels == {Num(20), Num(21), Num(90)}

\* plate diameters in meters (the known plates of REFERENCE_OBJECTS)
PlateDiameters ==
    {REFERENCE_OBJECTS.weight_plate_45, REFERENCE_OBJECTS.weight_plate_35,
     REFERENCE_OBJECTS.weight_plate_25}

UserHeights == {Num(0), Num(180)}

DepthData == [average_depth : {None, Num(0), Num(4)},
              focal_length  : {None, Num(500)}]

UserReferences == [type            : {"weight_plate_45", "yoga_mat", "sofa"},
                   diameter_pixels : {None, Num(0), Num(120)},
                   height_pixels   : {None, Num(300)}]

PixelDistances == {Num(0), Num(150), Num(-30)}

Optional(S) == S \cup {None}

NoReference == [type |-> "", diameter_pixels |-> None, height_pixels |-> None]

SampleReference ==
    [type |-> "weight_plate_45", diameter_pixels |-> Num(120), height_pixels |-> None]

\* the arguments a branch never reads are drawn from one sample
CalibrateAuto ==
    \E has_depth \in BOOLEAN :
      \E dd \in IF has_depth THEN DepthData ELSE {NoDepth},
         bh \in IF has_depth THEN {None, Num(100)} ELSE Optional(BoxHeights),
         uh \in IF has_depth THEN {None} ELSE Optional(UserHeights),
         sp \in IF has_depth THEN {None} ELSE Optional(ShoulderPixels) :
        LET r == calibrate_auto(mgr, bh, uh, sp, has_depth, dd)
        IN  /\ mgr' = r.self
            /\ cal_ret' = [Called("calibrate_auto", bh, uh, r)
                             EXCEPT !.c = sp, !.has_depth = has_depth, !.depth_data = dd]
            /\ UNCHANGED <<trkVars, regVars, vbtVars, velVars, detVars>>

CalibrateFromBarbell ==
    \E h \in BoxHeights, d \in PlateDiameters :
        LET r == calibrate_from_barbell(mgr, h, d)
        IN  /\ mgr' = r.self
            /\ cal_ret' = Called("calibrate_from_barbell", h, d, r)
            /\ UNCHANGED <<trkVars, regVars, vbtVars, velVars, detVars>>

CalibrateFromUserHeight ==
    \E uh \in UserHeights, sp \in ShoulderPixels :
        LET r == calibrate_from_user_height(mgr, uh, sp)
        IN  /\ mgr' = r.self
            /\ cal_ret' = Called("calibrate_from_user_height", uh, sp, r)
            /\ UNCHANGED <<trkVars, regVars, vbtVars, velVars, detVars>>

DetectCalibrationMethod ==
    \E has_depth \in BOOLEAN, has_ref \in BOOLEAN :
      \E dd \in IF has_depth THEN DepthData ELSE {NoDepth},
         ur \in IF ~has_ref THEN {NoReference}
                ELSE IF has_depth THEN {SampleReference} ELSE UserReferences :
        LET r == detect_calibration_method(mgr, has_depth, dd, has_ref, ur)
        IN  /\ mgr' = r.self
            /\ cal_ret' = Called("detect_calibration_method",
                                 Bool(has_depth), Bool(has_ref), r)
            /\ UNCHANGED <<trkVars, regVars, vbtVars, velVars, detVars>>

GetCalibrationInfo ==
    /\ cal_ret' = [Called("get_calibration_info", None, None, Ret(mgr, None))
                     EXCEPT !.info = get_calibration_info(mgr)]
    /\ UNCHANGED <<mgr, trkVars, regVars, vbtVars, velVars, detVars>>

ConvertPixelsToMeters ==
    \E px \in PixelDistances :
        LET r == convert_pixels_to_meters(mgr, px)
        IN  /\ cal_ret' = Called("convert_pixels_to_meters", px, None, r)
            /\ UNCHANGED <<mgr, trkVars, regVars, vbtVars, velVars, detVars>>

IsCalibrated ==
    /\ cal_ret' = Called("is_calibrated", None, None, Ret(mgr, Bool(is_calibrated(mgr))))
    /\ UNCHANGED <<mgr, trkVars, regVars, vbtVars, velVars, detVars>>

NextCal ==
    \/ CalibrateAuto
    \/ CalibrateFromBarbell
    \/ CalibrateFromUserHeight
    \/ DetectCalibrationMethod
    \/ GetCalibrationInfo
    \/ ConvertPixelsToMeters
    \/ IsCalibrated

(***************************************************************************)
(* BarbellTracker                                                          *)
(***************************************************************************)
\* a key that a JSON object / dict does not have
Absent == [k |-> "absent", n |-> 0, d |-> 1, s |-> ""]

\* locked_position: None or the tuple (x, y)
NoLock == [k |-> "none", x |-> None, y |-> None]

Locked(x, y) == [k |-> "tuple", x |-> x, y |-> y]

BarbellTrackerInit ==
    [locked_position   |-> NoLock,
     lock_radius       |-> Num(200),
     ema_alpha         |-> Frac(4, 10),
     smoothed_x        |-> None,
     smoothed_y        |-> None,
     frame_count       |-> 0,
     detection_count   |-> 0,
     last_inference_ms |-> Num(0),
     _initialized      |-> FALSE]

\* model_found: a model file exists and loads
initialize(self, model_found) ==
    IF self._initialized
    THEN Ret(self, Bool(TRUE))
    ELSE IF model_found
    THEN Ret([self EXCEPT !._initialized = TRUE], Bool(TRUE))
    ELSE Ret(self, Bool(FALSE))

\* the log line of lock_to_position formats x, then y, with ":.0f": it raises
\* for a value that is no number
LogLocked(self, x, y) ==
    IF ~IsNum(x)
    THEN Raise(self, IF IsNone(x) THEN "TypeError" ELSE "ValueError")
    ELSE IF ~IsNum(y)
    THEN Raise(self, IF IsNone(y) THEN "TypeError" ELSE "ValueError")
    ELSE Ret(self, None)

\* lock_to_position leaving the smoothed position as it was
lock_keeping_smoothed(self, x, y) ==
    LogLocked([self EXCEPT !.locked_position = Locked(x, y)], x, y)

lock_to_position(self, x, y) ==
    LogLocked([self EXCEPT !.locked_position = Locked(x, y),
                           !.smoothed_x = x,
                           !.smoothed_y = y],
              x, y)

\* unlock forgetting the smoothed position as well
unlock_forgetting(self) == Ret([self EXCEPT !.locked_position = NoLock, !.smoothed_x = None, !.smoothed_y = None], None)

unlock(self) == Ret([self EXCEPT !.locked_position = NoLock], None)

\* reset forgetting the detection counter
reset_keeping_detections(self) ==
    Ret([self EXCEPT !.locked_position = NoLock,
                     !.smoothed_x = None,
                     !.smoothed_y = None,
                     !.frame_count = 0],
        None)

reset(self) ==
    Ret([self EXCEPT !.locked_position = NoLock,
                     !.smoothed_x = None,
                     !.smoothed_y = None,
                     !.frame_count = 0,
                     !.detection_count = 0],
        None)

(***************************************************************************)
(* Scores.  A score is conf * (1 - sqrt(q) / lock_radius), kept as the     *)
(* pair [conf, q] with q the squared distance to the lock (0 when there is *)
(* no lock, where the score is conf).  Two scores are compared exactly     *)
(* where the square roots are rational or cancel, and otherwise through    *)
(* bounds on the square roots of 1/Precision pixel.                        *)
(***************************************************************************)
RECURSIVE ISqrtIter(_, _, _)
ISqrtIter(n, lo, hi) ==
    IF hi - lo <= 1
    THEN lo
    ELSE IF ((lo + hi) \div 2) * ((lo + hi) \div 2) <= n
    THEN ISqrtIter(n, (lo + hi) \div 2, hi)
    ELSE ISqrtIter(n, lo, (lo + hi) \div 2)

\* floor of the square root of n >= 0
ISqrt(n) == ISqrtIter(n, 0, 46341)

\* the steps per pixel in which a square root is bounded
Precision(q) ==
    IF q.n <= 200000 THEN 100
    ELSE IF q.n <= 2000000 THEN 30
    ELSE IF q.n <= 20000000 THEN 10
    ELSE IF q.n <= 200000000 THEN 3
    ELSE 1

Min(a, b) == IF a <= b THEN a ELSE b

ZeroScore == [conf |-> Num(0), q |-> Num(0)]

\* score a > score b for the radius R, with ka = floor(F * sqrt(a.q)) and kb
\* likewise: both scores scaled by F * R.d * a.conf.d * b.conf.d / R
Decide(a, b, R, F, ka, kb) ==
    LET exactA == a.conf.n = 0 \/ ka * ka * a.q.d = F * F * a.q.n
        exactB == b.conf.n = 0 \/ kb * kb * b.q.d = F * F * b.q.n
        wa == a.conf.n * b.conf.d
        wb == b.conf.n * a.conf.d
        hiA == wa * (R.n * F - ka * R.d)
        loA == wa * (R.n * F - (ka + 1) * R.d)
        hiB == wb * (R.n * F - kb * R.d)
        loB == wb * (R.n * F - (kb + 1) * R.d)
    IN  IF a.q = b.q
        THEN IF ka * R.d < R.n * F THEN wa > wb
             ELSE IF exactA /\ ka * R.d = R.n * F THEN FALSE ELSE wa < wb
        ELSE IF exactA /\ exactB THEN hiA > hiB
        ELSE IF (IF exactA THEN hiA ELSE loA) >= hiB THEN TRUE
        ELSE IF hiA <= (IF exactB THEN hiB ELSE loB) THEN FALSE
        ELSE hiA + loA > hiB + loB

Bounded(a, b, R, F) ==
    Decide(a, b, R, F, ISqrt((F * F * a.q.n) \div a.q.d), ISqrt((F * F * b.q.n) \div b.q.d))

\* score a > score b
ScoreGreater(a, b, R) == Bounded(a, b, R, Min(Precision(a.q), Precision(b.q)))

NoDetection == [x |-> None, y |-> None, w |-> None, h |-> None, conf |-> None]

NoBest == [found |-> FALSE, score |-> ZeroScore, det |-> NoDetection, raised |-> ""]

\* conf, centre and size of a box of the results
Candidate(box) ==
    [x |-> RDiv(RAdd(box.x1, box.x2), Num(2)),
     y |-> RDiv(RAdd(box.y1, box.y2), Num(2)),
     w |-> RSub(box.x2, box.x1),
     h |-> RSub(box.y2, box.y1),
     conf |-> box.conf]

SumOfSquares(dx, dy) == RAdd(RMul(dx, dx), RMul(dy, dy))

\* the square of dist
DistSquared(det, lock) == SumOfSquares(RSub(det.x, lock.x), RSub(det.y, lock.y))

\* if score > best_score
Better(self, det, score, best) ==
    IF ScoreGreater(score, best.score, self.lock_radius)
    THEN [found |-> TRUE, score |-> score, det |-> det, raised |-> ""]
    ELSE best

\* if dist > self.lock_radius: continue
Near(self, det, q, best) ==
    IF RLess(RMul(self.lock_radius, self.lock_radius), q)
    THEN best
    ELSE Better(self, det, [conf |-> det.conf, q |-> q], best)

\* the body of the loop scoring every box by its confidence, lock or no lock
Consider_unlocked(self, det, best) ==
    IF best.raised # ""
    THEN best
    ELSE Better(self, det, [conf |-> det.conf, q |-> Num(0)], best)

\* the body of the loop over the boxes
Consider(self, det, best) ==
    IF best.raised # ""
    THEN best
    ELSE IF self.locked_position.k = "tuple"
    THEN IF ~IsNum(self.locked_position.x) \/ ~IsNum(self.locked_position.y)
         THEN [best EXCEPT !.raised = "TypeError"]
         ELSE Near(self, det, DistSquared(det, self.locked_position), best)
    ELSE Better(self, det, [conf |-> det.conf, q |-> Num(0)], best)

\* the loop over the boxes of the results, from box i on
RECURSIVE BoxLoop(_, _, _, _)
BoxLoop(self, boxes, i, best) ==
    IF i > Len(boxes)
    THEN best
    ELSE BoxLoop(self, boxes, i + 1, Consider(self, Candidate(boxes[i]), best))

\* a JSON object sent to the client: every key it can have, Absent when it has not
NoKeys ==
    [error |-> Absent, status |-> Absent, x |-> Absent, y |-> Absent, w |-> Absent,
     h |-> Absent, conf |-> Absent, inference_ms |-> Absent,
     frame_count |-> Absent, detection_count |-> Absent]

\* the weights of new and old exchanged
Ema_exchanged(alpha, new, old) == RAdd(RMul(alpha, old), RMul(RSub(Num(1), alpha), new))

\* smoothed = alpha * new + (1 - alpha) * smoothed
Ema(alpha, new, old) == RAdd(RMul(alpha, new), RMul(RSub(Num(1), alpha), old))

\* the dict detect returns for a detection
Detected(self, best_detection) ==
    Ret(self, [NoKeys EXCEPT !.x = self.smoothed_x,
                             !.y = self.smoothed_y,
                             !.w = best_detection.w,
                             !.h = best_detection.h,
                             !.conf = best_detection.conf,
                             !.inference_ms = self.last_inference_ms])

\* the lock left where it was
Follow_not(self, best_detection) == Detected(self, best_detection)

\* update lock position to follow barbell
Follow(self, best_detection) ==
    IF self.locked_position.k = "tuple"
    THEN Detected([self EXCEPT !.locked_position = Locked(self.smoothed_x, self.smoothed_y)],
                  best_detection)
    ELSE Detected(self, best_detection)

\* apply EMA smoothing: x, then y
Smooth(self, best_detection) ==
    IF IsNone(self.smoothed_x)
    THEN Follow([self EXCEPT !.smoothed_x = best_detection.x,
                             !.smoothed_y = best_detection.y],
                best_detection)
    ELSE IF ~IsNum(self.smoothed_x)
    THEN Raise(self, "TypeError")
    ELSE IF ~IsNum(self.smoothed_y)
    THEN Raise([self EXCEPT !.smoothed_x = Ema(self.ema_alpha, best_detection.x, @)],
               "TypeError")
    ELSE Follow([self EXCEPT !.smoothed_x = Ema(self.ema_alpha, best_detection.x, @),
                             !.smoothed_y = Ema(self.ema_alpha, best_detection.y, @)],
                best_detection)

\* the part of detect after the loop, counting a detection whatever it found
Selected_counting_misses(self, best) ==
    IF best.raised # ""
    THEN Raise(self, best.raised)
    ELSE IF best.found
    THEN Smooth([self EXCEPT !.detection_count = @ + 1], best.det)
    ELSE Ret([self EXCEPT !.detection_count = @ + 1],
             [NoKeys EXCEPT !.x = Num(0), !.y = Num(0), !.w = Num(0),
                            !.h = Num(0), !.conf = Num(0),
                            !.inference_ms = self.last_inference_ms])

\* the part of detect after the loop
Selected(self, best) ==
    IF best.raised # ""
    THEN Raise(self, best.raised)
    ELSE IF best.found
    THEN Smooth([self EXCEPT !.detection_count = @ + 1], best.det)
    ELSE Ret(self, [NoKeys EXCEPT !.x = Num(0), !.y = Num(0), !.w = Num(0),
                                  !.h = Num(0), !.conf = Num(0),
                                  !.inference_ms = self.last_inference_ms])

\* the part of detect after the model returned results
Inferred(self, boxes) == Selected(self, BoxLoop(self, boxes, 1, NoBest))

\* detect counting a frame only when the model returned results
detect_counting_results(self, outcome) ==
    IF ~self._initialized
    THEN Ret(self, [NoKeys EXCEPT !.error = Str("Model not initialized")])
    ELSE IF outcome.raises
    THEN Ret(self, [NoKeys EXCEPT !.error = Str("DetectorError"), !.inference_ms = Num(0)])
    ELSE Inferred([self EXCEPT !.frame_count = @ + 1,
                               !.last_inference_ms = outcome.elapsed_ms],
                  outcome.boxes)

\* outcome: what the model call does on the frame: it raises, or it returns
\* boxes after elapsed_ms
detect(self, outcome) ==
    IF ~self._initialized
    THEN Ret(self, [NoKeys EXCEPT !.error = Str("Model not initialized")])
    ELSE IF outcome.raises
    THEN Ret([self EXCEPT !.frame_count = @ + 1],
             [NoKeys EXCEPT !.error = Str("DetectorError"), !.inference_ms = Num(0)])
    ELSE Inferred([self EXCEPT !.frame_count = @ + 1,
                               !.last_inference_ms = outcome.elapsed_ms],
                  outcome.boxes)

(***************************************************************************)
(* websocket_track: one connection and its message loop                    *)
(***************************************************************************)
\* A received message.  kind: "connect", "disconnect", "bytes" or "text".
\* bytes: decodes (the JPEG decodes to a frame) and outcome (what the model
\* does on it).  text: parses (json.loads succeeds), object (the JSON value
\* is an object) and its keys action, x, y (Absent when the object has none).
NoOutcome == [raises |-> FALSE, boxes |-> <<>>, elapsed_ms |-> Num(0)]

NoMessage ==
    [kind |-> "", decodes |-> FALSE, outcome |-> NoOutcome, parses |-> FALSE,
     object |-> FALSE, action |-> Absent, x |-> Absent, y |-> Absent]

Bytes(decodes, outcome) ==
    [NoMessage EXCEPT !.kind = "bytes", !.decodes = decodes, !.outcome = outcome]

Text(action, x, y) ==
    [NoMessage EXCEPT !.kind = "text", !.parses = TRUE, !.object = TRUE,
                      !.action = action, !.x = x, !.y = y]

\* dict.get(key, default)
Get(value, default) == IF value = Absent THEN default ELSE value

\* except Exception as e: send_json({"error": str(e)}); the text of e is
\* kept as the exception's class
Caught(r) ==
    IF r.raised # ""
    THEN Ret(r.self, [NoKeys EXCEPT !.error = Str(r.raised)])
    ELSE r

\* the branch for a binary message
on_bytes(self, msg) ==
    IF ~msg.decodes
    THEN Ret(self, [NoKeys EXCEPT !.error = Str("Invalid image data")])
    ELSE Caught(detect(self, msg.outcome))

\* the reply to a lock command whose lock_to_position returned
LockReply(r, x, y) ==
    IF r.raised # ""
    THEN r
    ELSE Ret(r.self, [NoKeys EXCEPT !.status = Str("locked"), !.x = x, !.y = y])

\* the commands, an unknown one taken for a reset
Command_resetting(self, action, x, y) ==
    IF action = Str("lock")
    THEN Caught(LockReply(lock_to_position(self, x, y), x, y))
    ELSE IF action = Str("unlock")
    THEN Ret(unlock(self).self, [NoKeys EXCEPT !.status = Str("unlocked")])
    ELSE IF action = Str("ping")
    THEN Ret(self, [NoKeys EXCEPT !.status = Str("pong"),
                                  !.frame_count = Num(self.frame_count),
                                  !.detection_count = Num(self.detection_count)])
    ELSE IF action = Str("reset")
    THEN Ret(reset(self).self, [NoKeys EXCEPT !.status = Str("reset")])
    ELSE Ret(reset(self).self,
             [NoKeys EXCEPT !.error = Str("Unknown action: " \o action.s)])

\* the commands of the object cmd
Command(self, action, x, y) ==
    IF action = Str("lock")
    THEN Caught(LockReply(lock_to_position(self, x, y), x, y))
    ELSE IF action = Str("unlock")
    THEN Ret(unlock(self).self, [NoKeys EXCEPT !.status = Str("unlocked")])
    ELSE IF action = Str("ping")
    THEN Ret(self, [NoKeys EXCEPT !.status = Str("pong"),
                                  !.frame_count = Num(self.frame_count),
                                  !.detection_count = Num(self.detection_count)])
    ELSE IF action = Str("reset")
    THEN Ret(reset(self).self, [NoKeys EXCEPT !.status = Str("reset")])
    ELSE Ret(self, [NoKeys EXCEPT !.error = Str("Unknown action: " \o action.s)])

\* the branch for a text message
on_text(self, msg) ==
    IF ~msg.parses
    THEN Ret(self, [NoKeys EXCEPT !.error = Str("Invalid JSON")])
    ELSE IF ~msg.object
    THEN Ret(self, [NoKeys EXCEPT !.error = Str("AttributeError")])
    ELSE Command(self, Get(msg.action, Str("")), Get(msg.x, Num(0)), Get(msg.y, Num(0)))

(***************************************************************************)
(* The messages a client sends                                             *)
(***************************************************************************)
\* a box of the detector around the centre (cx, cy), confidence tenths / 10
Box(cx, cy, w, h, tenths) ==
    [conf |-> Frac(tenths, 10),
     x1 |-> RSub(Num(cx), Frac(w, 2)), y1 |-> RSub(Num(cy), Frac(h, 2)),
     x2 |-> RAdd(Num(cx), Frac(w, 2)), y2 |-> RAdd(Num(cy), Frac(h, 2))]

\* what the model finds on a frame: no box, one box, or two boxes that differ
\* in distance and confidence
FrameBoxes ==
    {<<>>,
     <<Box(10, 10, 40, 20, 9)>>,
     <<Box(20, 20, 40, 20, 9)>>,
     <<Box(120, 160, 30, 30, 9)>>,
     <<Box(250, 160, 40, 20, 9)>>,
     <<Box(250, 160, 40, 20, 9), Box(20, 20, 40, 20, 3)>>,
     <<Box(10, 10, 40, 20, 3), Box(120, 160, 30, 30, 9)>>,
     <<Box(20, 20, 40, 20, 9), Box(10, 10, 40, 20, 9)>>,
     <<Box(120, 160, 30, 30, 3), Box(250, 160, 40, 20, 9)>>}

ElapsedMs == {Num(8), Num(15)}

Outcomes ==
    {[raises |-> TRUE, boxes |-> <<>>, elapsed_ms |-> Num(0)]}
    \cup [raises : {FALSE}, boxes : FrameBoxes, elapsed_ms : ElapsedMs]

\* the x and y of a lock command: numbers, no key at all, null, a string
LockArguments ==
    {<<Num(10), Num(10)>>, <<Num(20), Num(20)>>, <<Num(120), Num(160)>>,
     <<Absent, Absent>>, <<None, Num(10)>>, <<Num(10), Str("a")>>}

KnownActions == {Str("lock"), Str("unlock"), Str("ping"), Str("reset")}

UnknownCommands ==
    {Text(Str("foo"), Absent, Absent), Text(Absent, Absent, Absent),
     Text(Str("LOCK"), Num(10), Num(10)), Text(Str("locked"), Num(120), Num(160))}

\* the cap on the frames of one tracker between two resets
MaxFrames == 3

(***************************************************************************)
(* The connection                                                          *)
(***************************************************************************)
\* accept, then BarbellTracker() and initialize(); a failed initialize closes
Accepted(r) ==
    /\ tracker' = r.self
    /\ IF r.ret = Bool(TRUE)
       THEN session' = "active" /\ response' = NoKeys
       ELSE /\ session' = "closed"
            /\ response' = [NoKeys EXCEPT !.error = Str("Failed to initialize model")]

Connect ==
    /\ session = "closed"
    /\ \E model_found \in BOOLEAN : Accepted(initialize(BarbellTrackerInit, model_found))
    /\ message' = [NoMessage EXCEPT !.kind = "connect"]
    /\ UNCHANGED <<calVars, regVars, vbtVars, velVars, detVars>>

Disconnect ==
    /\ session = "active"
    /\ session' = "closed"
    /\ message' = [NoMessage EXCEPT !.kind = "disconnect"]
    /\ UNCHANGED <<tracker, response, calVars, regVars, vbtVars, velVars, detVars>>

\* one turn of the loop: the message msg was handled with the result r
Handled(msg, r) ==
    /\ tracker' = r.self
    /\ response' = r.ret
    /\ message' = msg
    /\ UNCHANGED <<session, calVars, regVars, vbtVars, velVars, detVars>>

ReceiveBytes(msg) == Handled(msg, on_bytes(tracker, msg))

ReceiveText(msg) == Handled(msg, on_text(tracker, msg))

RecvInvalidImage ==
    /\ session = "active"
    /\ ReceiveBytes(Bytes(FALSE, NoOutcome))

RecvFrame ==
    /\ session = "active"
    /\ tracker.frame_count < MaxFrames
    /\ \E o \in Outcomes : ReceiveBytes(Bytes(TRUE, o))

RecvInvalidJSON ==
    /\ session = "active"
    /\ \E object \in BOOLEAN :
        ReceiveText([NoMessage EXCEPT !.kind = "text", !.parses = object, !.object = FALSE])

RecvLock ==
    /\ session = "active"
    /\ \E a \in LockArguments : ReceiveText(Text(Str("lock"), a[1], a[2]))

RecvUnlock ==
    /\ session = "active"
    /\ ReceiveText(Text(Str("unlock"), Absent, Absent))

RecvPing ==
    /\ session = "active"
    /\ ReceiveText(Text(Str("ping"), Absent, Absent))

RecvReset ==
    /\ session = "active"
    /\ ReceiveText(Text(Str("reset"), Absent, Absent))

RecvUnknown ==
    /\ session = "active"
    /\ \E msg \in UnknownCommands : ReceiveText(msg)

NextTrk ==
    \/ Connect
    \/ Disconnect
    \/ RecvInvalidImage
    \/ RecvFrame
    \/ RecvInvalidJSON
    \/ RecvLock
    \/ RecvUnlock
    \/ RecvPing
    \/ RecvReset
    \/ RecvUnknown

(***************************************************************************)
(* Several connections on one event loop.  A handler (websocket_track) runs *)
(* from one await to the next without any other handler running; the model  *)
(* call of detect is synchronous and keeps the event loop for its duration. *)
(* pc of a connection: "closed", "accepting" (await accept), "refusing"     *)
(* (await send_json of the initialize error), "receiving" (await receive),  *)
(* "inferring" (inside self.model(frame)), "sending" (await send_json),     *)
(* "reporting" (a send raised: the except branch is about to send the       *)
(* error), "closing" (that send was called and raises into finally).        *)
(***************************************************************************)
Conns == {"c1", "c2"}

\* f"{websocket.client.host}:{websocket.client.port}", as the server reports
\* the peer of a connection
ClientIds(c) == IF c = "c1" THEN {"10.0.0.7:0"} ELSE {"10.0.0.7:0", "10.0.0.7:51000"}

\* the cap on the messages a client sends on one connection
MaxMessages == 2

Disconnected == [NoMessage EXCEPT !.kind = "disconnect"]

InvalidJSON == [NoMessage EXCEPT !.kind = "text"]

GoodFrame == Bytes(TRUE, [raises |-> FALSE, boxes |-> <<Box(10, 10, 40, 20, 9)>>, elapsed_ms |-> Num(8)])

FailingFrame == Bytes(TRUE, [raises |-> TRUE, boxes |-> <<>>, elapsed_ms |-> Num(0)])

\* what the client of a connection may send
ClientMessages(c) ==
    IF c = "c1"
    THEN {GoodFrame, FailingFrame, Bytes(FALSE, NoOutcome)}
    ELSE {InvalidJSON, Text(Str("foo"), Absent, Absent)}

\* a message waiting to be received: the id-th one the client sent (0 for the
\* disconnect)
NoEntry == [id |-> 0, msg |-> NoMessage]

ClosedConn ==
    [pc |-> "closed", client_id |-> "", peer |-> "gone", posted |-> 0, inbox |-> <<>>,
     tracker |-> BarbellTrackerInit, current |-> NoEntry, reply |-> NoKeys,
     received |-> 0, outbox |-> <<>>, writes |-> 0]

EmptyRegistry == [id \in {} |-> "c1"]

\* active_trackers[client_id] = tracker
Registered(registry, id, c) ==
    [k \in DOMAIN registry \cup {id} |-> IF k = id THEN c ELSE registry[k]]

\* if client_id in active_trackers: del active_trackers[client_id]
Removed(registry, id) == [k \in DOMAIN registry \ {id} |-> registry[k]]

\* the handler is in its message loop
Active(c) == conn[c].pc \in {"receiving", "inferring", "sending", "reporting", "closing"}

\* a client opens a connection; the server sees it come from client_id
Open(c) ==
    /\ conn[c].pc = "closed"
    /\ \E id \in ClientIds(c) :
          conn' = [conn EXCEPT ![c] = [ClosedConn EXCEPT !.pc = "accepting",
                                                         !.client_id = id,
                                                         !.peer = "here"]]
    /\ UNCHANGED <<active_trackers, running, calVars, trkVars, vbtVars, velVars, detVars>>

ClientSend(c) ==
    /\ conn[c].pc \in {"accepting", "receiving", "inferring", "sending"}
    /\ conn[c].peer = "here"
    /\ conn[c].posted < MaxMessages
    /\ \E m \in ClientMessages(c) :
          conn' = [conn EXCEPT ![c].posted = @ + 1,
                               ![c].inbox = Append(@, [id |-> conn[c].posted + 1, msg |-> m])]
    /\ UNCHANGED <<active_trackers, running, calVars, trkVars, vbtVars, velVars, detVars>>

\* the peer goes away: the server will receive websocket.disconnect, and a
\* send to the connection fails from now on
ClientClose(c) ==
    /\ conn[c].pc \in {"accepting", "receiving", "inferring", "sending"}
    /\ conn[c].peer = "here"
    /\ conn' = [conn EXCEPT ![c].peer = "gone",
                            ![c].inbox = Append(@, [id |-> 0, msg |-> Disconnected])]
    /\ UNCHANGED <<active_trackers, running, calVars, trkVars, vbtVars, velVars, detVars>>

\* the accept that puts the tracker into the registry before initialize()
Accept_registering_first(c) ==
    /\ running = "none"
    /\ conn[c].pc = "accepting"
    /\ active_trackers' = Registered(active_trackers, conn[c].client_id, c)
    /\ \E model_found \in BOOLEAN :
          IF initialize(BarbellTrackerInit, model_found).ret = Bool(TRUE)
          THEN conn' = [conn EXCEPT
                           ![c].tracker = initialize(BarbellTrackerInit, model_found).self,
                           ![c].pc = "receiving"]
          ELSE conn' = [conn EXCEPT ![c].pc = "refusing"]
    /\ UNCHANGED <<running, calVars, trkVars, vbtVars, velVars, detVars>>

\* accept, BarbellTracker(), initialize() and, when that succeeds, the entry
\* in the registry
Accept(c) ==
    /\ running = "none"
    /\ conn[c].pc = "accepting"
    /\ \E model_found \in BOOLEAN :
          IF initialize(BarbellTrackerInit, model_found).ret = Bool(TRUE)
          THEN /\ conn' = [conn EXCEPT
                              ![c].tracker = initialize(BarbellTrackerInit, model_found).self,
                              ![c].pc = "receiving"]
               /\ active_trackers' = Registered(active_trackers, conn[c].client_id, c)
          ELSE /\ conn' = [conn EXCEPT ![c].pc = "refusing"]
               /\ UNCHANGED active_trackers
    /\ UNCHANGED <<running, calVars, trkVars, vbtVars, velVars, detVars>>

\* send_json({"error": "Failed to initialize model"}), close, return
Refuse(c) ==
    /\ running = "none"
    /\ conn[c].pc = "refusing"
    /\ conn' = [conn EXCEPT ![c] = ClosedConn]
    /\ UNCHANGED <<active_trackers, running, calVars, trkVars, vbtVars, velVars, detVars>>

\* a receive that hands out the newest message waiting
NextMessage_newest(inbox) == inbox[Len(inbox)]

\* message = await websocket.receive(): the oldest message waiting
NextMessage(inbox) == Head(inbox)

\* the handler of c got the message m: a disconnect ends the loop and runs
\* finally; a frame that decodes enters the model call; any other message is
\* handled up to the await of its send_json
Received(c, m) ==
    IF m.msg.kind = "disconnect"
    THEN /\ conn' = [conn EXCEPT ![c] = ClosedConn]
         /\ active_trackers' = Removed(active_trackers, conn[c].client_id)
         /\ UNCHANGED running
    ELSE IF m.msg.kind = "bytes" /\ m.msg.decodes
    THEN /\ conn' = [conn EXCEPT ![c].inbox = Tail(@),
                                 ![c].current = m,
                                 ![c].received = @ + 1,
                                 ![c].pc = "inferring"]
         /\ running' = c
         /\ UNCHANGED active_trackers
    ELSE /\ conn' = [conn EXCEPT
                        ![c].inbox = Tail(@),
                        ![c].current = m,
                        ![c].received = @ + 1,
                        ![c].tracker = IF m.msg.kind = "bytes"
                                       THEN on_bytes(conn[c].tracker, m.msg).self
                                       ELSE on_text(conn[c].tracker, m.msg).self,
                        ![c].reply = IF m.msg.kind = "bytes"
                                     THEN on_bytes(conn[c].tracker, m.msg).ret
                                     ELSE on_text(conn[c].tracker, m.msg).ret,
                        ![c].pc = "sending"]
         /\ UNCHANGED <<active_trackers, running>>

Receive(c) ==
    /\ running = "none"
    /\ conn[c].pc = "receiving"
    /\ conn[c].inbox # <<>>
    /\ Received(c, NextMessage(conn[c].inbox))
    /\ UNCHANGED <<calVars, trkVars, vbtVars, velVars, detVars>>

\* the model call returns or raises, and detect runs to its return
Infer(c) ==
    /\ running = c
    /\ conn[c].pc = "inferring"
    /\ conn' = [conn EXCEPT ![c].tracker = on_bytes(@, conn[c].current.msg).self,
                            ![c].reply = on_bytes(conn[c].tracker, conn[c].current.msg).ret,
                            ![c].pc = "sending"]
    /\ running' = "none"
    /\ UNCHANGED <<active_trackers, calVars, trkVars, vbtVars, velVars, detVars>>

\* a send after which an error reply ends the handler
Send_ending(c) ==
    /\ running = "none"
    /\ conn[c].pc = "sending"
    /\ conn[c].peer = "here"
    /\ IF conn[c].reply.error # Absent
       THEN /\ conn' = [conn EXCEPT ![c] = ClosedConn]
            /\ active_trackers' = Removed(active_trackers, conn[c].client_id)
       ELSE /\ conn' = [conn EXCEPT ![c].outbox = Append(@, [for |-> conn[c].current.id,
                                                             body |-> conn[c].reply]),
                                    ![c].writes = @ + 1,
                                    ![c].current = NoEntry,
                                    ![c].reply = NoKeys,
                                    ![c].pc = "receiving"]
            /\ UNCHANGED active_trackers
    /\ UNCHANGED <<running, calVars, trkVars, vbtVars, velVars, detVars>>

\* await websocket.send_json(...) returns: the reply went out, the loop goes on
Send(c) ==
    /\ running = "none"
    /\ conn[c].pc = "sending"
    /\ conn[c].peer = "here"
    /\ conn' = [conn EXCEPT ![c].outbox = Append(@, [for |-> conn[c].current.id,
                                                     body |-> conn[c].reply]),
                            ![c].writes = @ + 1,
                            ![c].current = NoEntry,
                            ![c].reply = NoKeys,
                            ![c].pc = "receiving"]
    /\ UNCHANGED <<active_trackers, running, calVars, trkVars, vbtVars, velVars, detVars>>

\* await websocket.send_json(...) raises, the peer being gone: control goes to
\* the except Exception branch around it
SendFails(c) ==
    /\ running = "none"
    /\ conn[c].pc = "sending"
    /\ conn[c].peer = "gone"
    /\ conn' = [conn EXCEPT ![c].writes = @ + 1, ![c].pc = "reporting"]
    /\ UNCHANGED <<active_trackers, running, calVars, trkVars, vbtVars, velVars, detVars>>

\* the except branch calls send_json({"error": str(e)})
Report(c) ==
    /\ running = "none"
    /\ conn[c].pc = "reporting"
    /\ conn' = [conn EXCEPT ![c].writes = @ + 1, ![c].pc = "closing"]
    /\ UNCHANGED <<active_trackers, running, calVars, trkVars, vbtVars, velVars, detVars>>

\* that send raises out of the loop: except, then finally
Cleanup(c) ==
    /\ running = "none"
    /\ conn[c].pc = "closing"
    /\ conn' = [conn EXCEPT ![c] = ClosedConn]
    /\ active_trackers' = Removed(active_trackers, conn[c].client_id)
    /\ UNCHANGED <<running, calVars, trkVars, vbtVars, velVars, detVars>>

\* GET /neiro/status, answered on the event loop between two handler steps
neiro_status == [status |-> "online", active_connections |-> Cardinality(DOMAIN active_trackers)]

\* GET /neiro/connections
list_connections ==
    [count |-> Cardinality(DOMAIN active_trackers),
     connections |->
        {[client_id |-> id,
          frame_count |-> conn[active_trackers[id]].tracker.frame_count,
          detection_count |-> conn[active_trackers[id]].tracker.detection_count,
          locked |-> conn[active_trackers[id]].tracker.locked_position # NoLock]
         : id \in DOMAIN active_trackers}]

NextReg ==
    \/ \E c \in Conns : Open(c)
    \/ \E c \in Conns : ClientSend(c)
    \/ \E c \in Conns : ClientClose(c)
    \/ \E c \in Conns : Accept(c)
    \/ \E c \in Conns : Refuse(c)
    \/ \E c \in Conns : Receive(c)
    \/ \E c \in Conns : Infer(c)
    \/ \E c \in Conns : Send(c)
    \/ \E c \in Conns : SendFails(c)
    \/ \E c \in Conns : Report(c)
    \/ \E c \in Conns : Cleanup(c)

(***************************************************************************)
(* The VBT endpoints of main_backup.py and their shared maps vbt_uploads   *)
(* and vbt_tasks, guarded by the threading.Lock vbt_lock.  The coroutines  *)
(* upload_vbt_chunk (units "up1", "up2"), start_vbt_processing ("start"),  *)
(* get_vbt_status ("status") and get_vbt_results ("results") run on the    *)
(* event loop thread, one at a time from one await to the next; loop is    *)
(* the coroutine that occupies that thread, also while it blocks in        *)
(* vbt_lock.acquire().  process_vbt_video ("worker") is a synchronous      *)
(* background task: it runs on a thread of the pool and its statements     *)
(* interleave with those of the event loop thread.                         *)
(***************************************************************************)
Units == {"up1", "up2", "start", "status", "results", "worker"}

Uploaders == {"up1", "up2"}

\* total_chunks of the upload
MaxChunks == 2

\* the chunk_number a client may send: the server does not check it against
\* total_chunks
ChunkNumbers == 0..MaxChunks

NoUploads == [u \in {} |-> [chunks |-> {}, total_chunks |-> 0]]

NoTasks == [t \in {} |-> [status |-> "", progress |-> 0, results |-> "None", error |-> "None"]]

Idle == [pc |-> "idle", n |-> 0, seen |-> ""]

NoAccess == [by |-> "", map |-> "", locked |-> FALSE]

\* the unit by reads or writes the map, holding vbt_lock or not
Access(by, map) == [by |-> by, map |-> map, locked |-> vbt_lock = by]

NoResponse == [to |-> "", code |-> 0, status |-> "", progress |-> 0, results |-> "", error |-> ""]

Response(to, code) == [NoResponse EXCEPT !.to = to, !.code = code]

\* a request POST /api/upload-chunk starts to run: int(chunk_number),
\* int(total_chunks), then "with vbt_lock:"
UploadBegin(u) ==
    /\ loop = "none"
    /\ unit[u].pc = "idle"
    /\ \E n \in ChunkNumbers : unit' = [unit EXCEPT ![u] = [Idle EXCEPT !.pc = "locking", !.n = n]]
    /\ loop' = u
    /\ access' = NoAccess
    /\ vbt_ret' = NoResponse
    /\ UNCHANGED <<vbt_uploads, vbt_tasks, vbt_lock, calVars, trkVars, regVars, velVars, detVars>>

\* the lock is acquired, the upload entered if it is new, and the coroutine
\* suspends in "await chunk.read()" with the lock held
UploadLocked(u) ==
    /\ loop = u
    /\ unit[u].pc = "locking"
    /\ vbt_lock = ""
    /\ vbt_lock' = u
    /\ vbt_uploads' = IF "u1" \in DOMAIN vbt_uploads
                      THEN vbt_uploads
                      ELSE [k \in {"u1"} |-> [chunks |-> {}, total_chunks |-> MaxChunks]]
    /\ unit' = [unit EXCEPT ![u].pc = "reading"]
    /\ loop' = "none"
    /\ access' = [by |-> u, map |-> "vbt_uploads", locked |-> TRUE]
    /\ vbt_ret' = NoResponse
    /\ UNCHANGED <<vbt_tasks, calVars, trkVars, regVars, velVars, detVars>>

\* the file is written: the chunk is recorded, the chunks counted, the lock
\* released and the response returned
UploadStored(u) ==
    /\ loop = "none"
    /\ unit[u].pc = "reading"
    /\ vbt_uploads' = [vbt_uploads EXCEPT !["u1"].chunks = @ \cup {unit[u].n}]
    /\ vbt_lock' = ""
    /\ unit' = [unit EXCEPT ![u] = Idle]
    /\ access' = Access(u, "vbt_uploads")
    /\ vbt_ret' = [Response(u, 200) EXCEPT
                      !.progress = Cardinality(vbt_uploads["u1"].chunks \cup {unit[u].n}),
                      !.status = IF Cardinality(vbt_uploads["u1"].chunks \cup {unit[u].n}) >= vbt_uploads["u1"].total_chunks
                                 THEN "uploadComplete" ELSE "uploadIncomplete"]
    /\ UNCHANGED <<vbt_tasks, loop, calVars, trkVars, regVars, velVars, detVars>>

\* POST /api/process-video: the upload is looked up and its chunks counted,
\* without the lock; a complete upload goes on to "with vbt_lock:"
StartChecked ==
    /\ loop = "none"
    /\ unit["start"].pc = "idle"
    /\ vbt_tasks = NoTasks
    /\ IF "u1" \notin DOMAIN vbt_uploads
       THEN /\ vbt_ret' = Response("start", 400)
            /\ UNCHANGED <<unit, loop>>
       ELSE IF Cardinality(vbt_uploads["u1"].chunks) < vbt_uploads["u1"].total_chunks
       THEN /\ vbt_ret' = [Response("start", 400) EXCEPT !.error = "Upload incomplete"]
            /\ UNCHANGED <<unit, loop>>
       ELSE /\ vbt_ret' = NoResponse
            /\ unit' = [unit EXCEPT !["start"].pc = "locking"]
            /\ loop' = "start"
    /\ access' = Access("start", "vbt_uploads")
    /\ UNCHANGED <<vbt_uploads, vbt_tasks, vbt_lock, calVars, trkVars, regVars, velVars, detVars>>

\* the task is entered under the lock and process_vbt_video handed to the
\* background tasks
StartRegistered ==
    /\ loop = "start"
    /\ unit["start"].pc = "locking"
    /\ vbt_lock = ""
    /\ vbt_tasks' = [t \in {"t1"} |-> [status |-> "pending", progress |-> 0,
                                       results |-> "None", error |-> "None"]]
    /\ unit' = [unit EXCEPT !["start"].pc = "idle", !["worker"].pc = "queued"]
    /\ loop' = "none"
    /\ access' = [by |-> "start", map |-> "vbt_tasks", locked |-> TRUE]
    /\ vbt_ret' = Response("start", 200)
    /\ UNCHANGED <<vbt_uploads, vbt_lock, calVars, trkVars, regVars, velVars, detVars>>

\* process_vbt_video takes the lock and assigns status
WorkerBegins ==
    /\ unit["worker"].pc = "queued"
    /\ vbt_lock = ""
    /\ vbt_lock' = "worker"
    /\ vbt_tasks' = [vbt_tasks EXCEPT !["t1"].status = "processing"]
    /\ unit' = [unit EXCEPT !["worker"].pc = "begun"]
    /\ access' = [by |-> "worker", map |-> "vbt_tasks", locked |-> TRUE]
    /\ vbt_ret' = NoResponse
    /\ UNCHANGED <<vbt_uploads, loop, calVars, trkVars, regVars, velVars, detVars>>

\* it assigns progress and currentStep and releases the lock
WorkerBegun ==
    /\ unit["worker"].pc = "begun"
    /\ vbt_tasks' = [vbt_tasks EXCEPT !["t1"].progress = 5]
    /\ vbt_lock' = ""
    /\ unit' = [unit EXCEPT !["worker"].pc = "assembling"]
    /\ access' = Access("worker", "vbt_tasks")
    /\ vbt_ret' = NoResponse
    /\ UNCHANGED <<vbt_uploads, loop, calVars, trkVars, regVars, velVars, detVars>>

\* upload_info = vbt_uploads[upload_id] and the loop over
\* range(total_chunks), without the lock: a missing index raises KeyError
WorkerAssembles ==
    /\ unit["worker"].pc = "assembling"
    /\ unit' = [unit EXCEPT !["worker"].pc =
                   IF \A i \in 0..(vbt_uploads["u1"].total_chunks - 1) : i \in vbt_uploads["u1"].chunks
                   THEN "assembled" ELSE "failing"]
    /\ access' = Access("worker", "vbt_uploads")
    /\ vbt_ret' = NoResponse
    /\ UNCHANGED <<vbt_uploads, vbt_tasks, vbt_lock, loop, calVars, trkVars, regVars, velVars, detVars>>

\* progress 15 under the lock
WorkerAssembled ==
    /\ unit["worker"].pc = "assembled"
    /\ vbt_lock = ""
    /\ vbt_tasks' = [vbt_tasks EXCEPT !["t1"].progress = 15]
    /\ unit' = [unit EXCEPT !["worker"].pc = "analyzing"]
    /\ access' = [by |-> "worker", map |-> "vbt_tasks", locked |-> TRUE]
    /\ vbt_ret' = NoResponse
    /\ UNCHANGED <<vbt_uploads, vbt_lock, loop, calVars, trkVars, regVars, velVars, detVars>>

\* progress_callback(50, step) called by the analyzer: 15 + int(50 * 0.8)
WorkerProgress ==
    /\ unit["worker"].pc = "analyzing"
    /\ vbt_lock = ""
    /\ vbt_tasks' = [vbt_tasks EXCEPT !["t1"].progress = 55]
    /\ access' = [by |-> "worker", map |-> "vbt_tasks", locked |-> TRUE]
    /\ vbt_ret' = NoResponse
    /\ UNCHANGED <<vbt_uploads, vbt_lock, unit, loop, calVars, trkVars, regVars, velVars, detVars>>

\* analyze_video returns its results or raises
WorkerAnalyzed ==
    /\ unit["worker"].pc = "analyzing"
    /\ \E raises \in BOOLEAN :
          unit' = [unit EXCEPT !["worker"].pc = IF raises THEN "failing" ELSE "completing"]
    /\ access' = NoAccess
    /\ vbt_ret' = NoResponse
    /\ UNCHANGED <<vbt_uploads, vbt_tasks, vbt_lock, loop, calVars, trkVars, regVars, velVars, detVars>>

\* the lock is taken and status "completed" and progress 100 assigned
WorkerCompletes ==
    /\ unit["worker"].pc = "completing"
    /\ vbt_lock = ""
    /\ vbt_lock' = "worker"
    /\ vbt_tasks' = [vbt_tasks EXCEPT !["t1"].status = "completed", !["t1"].progress = 100]
    /\ unit' = [unit EXCEPT !["worker"].pc = "completed"]
    /\ access' = [by |-> "worker", map |-> "vbt_tasks", locked |-> TRUE]
    /\ vbt_ret' = NoResponse
    /\ UNCHANGED <<vbt_uploads, loop, calVars, trkVars, regVars, velVars, detVars>>

\* currentStep and results are assigned and the lock released
WorkerCompleted ==
    /\ unit["worker"].pc = "completed"
    /\ vbt_tasks' = [vbt_tasks EXCEPT !["t1"].results = "results"]
    /\ vbt_lock' = ""
    /\ unit' = [unit EXCEPT !["worker"].pc = "cleaning"]
    /\ access' = Access("worker", "vbt_tasks")
    /\ vbt_ret' = NoResponse
    /\ UNCHANGED <<vbt_uploads, loop, calVars, trkVars, regVars, velVars, detVars>>

\* "for chunk_path in upload_info['chunks'].values()" starts, without the
\* lock: n is the size of the dict then
WorkerCleans ==
    /\ unit["worker"].pc = "cleaning"
    /\ unit' = [unit EXCEPT !["worker"].pc = "unlinking",
                            !["worker"].n = Cardinality(vbt_uploads["u1"].chunks)]
    /\ access' = Access("worker", "vbt_uploads")
    /\ vbt_ret' = NoResponse
    /\ UNCHANGED <<vbt_uploads, vbt_tasks, vbt_lock, loop, calVars, trkVars, regVars, velVars, detVars>>

\* the iteration goes on to its end; if the dict has grown since it started,
\* it raises RuntimeError (dictionary changed size during iteration)
WorkerCleaned ==
    /\ unit["worker"].pc = "unlinking"
    /\ unit' = [unit EXCEPT !["worker"].pc =
                   IF Cardinality(vbt_uploads["u1"].chunks) = unit["worker"].n
                   THEN "done" ELSE "failing"]
    /\ access' = Access("worker", "vbt_uploads")
    /\ vbt_ret' = NoResponse
    /\ UNCHANGED <<vbt_uploads, vbt_tasks, vbt_lock, loop, calVars, trkVars, regVars, velVars, detVars>>

\* except Exception: status "failed", error and currentStep under the lock
WorkerFails ==
    /\ unit["worker"].pc = "failing"
    /\ vbt_lock = ""
    /\ vbt_tasks' = [vbt_tasks EXCEPT !["t1"].status = "failed", !["t1"].error = "error"]
    /\ unit' = [unit EXCEPT !["worker"].pc = "done"]
    /\ access' = [by |-> "worker", map |-> "vbt_tasks", locked |-> TRUE]
    /\ vbt_ret' = NoResponse
    /\ UNCHANGED <<vbt_uploads, vbt_lock, loop, calVars, trkVars, regVars, velVars, detVars>>

\* GET /api/status/{task_id}: the task is looked up and its status read,
\* without the lock
StatusLooksUp ==
    /\ loop = "none"
    /\ unit["status"].pc = "idle"
    /\ IF "t1" \notin DOMAIN vbt_tasks
       THEN /\ vbt_ret' = Response("status", 404)
            /\ UNCHANGED <<unit, loop>>
       ELSE /\ vbt_ret' = NoResponse
            /\ unit' = [unit EXCEPT !["status"].pc = "reading",
                                    !["status"].seen = vbt_tasks["t1"].status]
            /\ loop' = "status"
    /\ access' = Access("status", "vbt_tasks")
    /\ UNCHANGED <<vbt_uploads, vbt_tasks, vbt_lock, calVars, trkVars, regVars, velVars, detVars>>

\* progress, currentStep and error are read and the response returned
StatusReturns ==
    /\ loop = "status"
    /\ unit["status"].pc = "reading"
    /\ vbt_ret' = [Response("status", 200) EXCEPT !.status = unit["status"].seen,
                                                  !.progress = vbt_tasks["t1"].progress,
                                                  !.error = vbt_tasks["t1"].error]
    /\ unit' = [unit EXCEPT !["status"] = Idle]
    /\ loop' = "none"
    /\ access' = Access("status", "vbt_tasks")
    /\ UNCHANGED <<vbt_uploads, vbt_tasks, vbt_lock, calVars, trkVars, regVars, velVars, detVars>>

\* GET /api/results/{task_id}: the task is looked up and its status tested,
\* without the lock
ResultsChecked ==
    /\ loop = "none"
    /\ unit["results"].pc = "idle"
    /\ IF "t1" \notin DOMAIN vbt_tasks
       THEN /\ vbt_ret' = Response("results", 404)
            /\ UNCHANGED <<unit, loop>>
       ELSE IF vbt_tasks["t1"].status # "completed"
       THEN /\ vbt_ret' = [Response("results", 400) EXCEPT !.status = vbt_tasks["t1"].status]
            /\ UNCHANGED <<unit, loop>>
       ELSE /\ vbt_ret' = NoResponse
            /\ unit' = [unit EXCEPT !["results"].pc = "returning"]
            /\ loop' = "results"
    /\ access' = Access("results", "vbt_tasks")
    /\ UNCHANGED <<vbt_uploads, vbt_tasks, vbt_lock, calVars, trkVars, regVars, velVars, detVars>>

\* return task["results"]
ResultsReturns ==
    /\ loop = "results"
    /\ unit["results"].pc = "returning"
    /\ vbt_ret' = [Response("results", 200) EXCEPT !.results = vbt_tasks["t1"].results]
    /\ unit' = [unit EXCEPT !["results"] = Idle]
    /\ loop' = "none"
    /\ access' = Access("results", "vbt_tasks")
    /\ UNCHANGED <<vbt_uploads, vbt_tasks, vbt_lock, calVars, trkVars, regVars, velVars, detVars>>

NextVbt ==
    \/ \E u \in Uploaders : UploadBegin(u)
    \/ \E u \in Uploaders : UploadLocked(u)
    \/ \E u \in Uploaders : UploadStored(u)
    \/ StartChecked
    \/ StartRegistered
    \/ WorkerBegins
    \/ WorkerBegun
    \/ WorkerAssembles
    \/ WorkerAssembled
    \/ WorkerProgress
    \/ WorkerAnalyzed
    \/ WorkerCompletes
    \/ WorkerCompleted
    \/ WorkerCleans
    \/ WorkerCleaned
    \/ WorkerFails
    \/ StatusLooksUp
    \/ StatusReturns
    \/ ResultsChecked
    \/ ResultsReturns

(***************************************************************************)
(* MovementVelocityCalculator, as process_video uses it: the calculator is *)
(* built with the fps of the video and calculate_movement_metrics is       *)
(* called once on the pose data.  The pose data are kept as the vertical   *)
(* position of the tracked landmark in each frame (the image y grows       *)
(* downwards); frame i has the timestamp i / fps.                          *)
(***************************************************************************)
MovementVelocityCalculatorInit(fps) == [fps |-> fps]

\* the keys of the dict calculate_movement_metrics returns, and the ones the
\* dict may lack
NoMetrics ==
    [mean_velocity |-> Absent, peak_velocity |-> Absent, velocity_loss |-> Absent,
     rep_duration |-> Absent, concentric_duration |-> Absent,
     eccentric_duration |-> Absent, power_output |-> Absent, exercise_type |-> Absent,
     status |-> Absent, message |-> Absent, reps |-> Absent]

calculate_movement_metrics(self, pose_data, exercise_type) ==
    [NoMetrics EXCEPT !.mean_velocity = None,
                      !.peak_velocity = None,
                      !.velocity_loss = None,
                      !.rep_duration = None,
                      !.concentric_duration = None,
                      !.eccentric_duration = None,
                      !.power_output = None,
                      !.exercise_type = Str(exercise_type),
                      !.status = Str("vbt_not_implemented"),
                      !.message = Str("VBT metrics calculation not yet implemented")]

\* the cap on the frames of the descent and of the ascent of a trajectory
MaxPhase == 3

\* k frames down by s each, then j frames up by t each
Trajectory(k, j, s, t) ==
    [i \in 1..(1 + k + j) |-> IF i <= k + 1 THEN (i - 1) * s ELSE k * s - (i - k - 1) * t]

\* one squat: a monotonic descent, then a monotonic ascent that does not
\* pass the starting position
SquatTrajectories ==
    {Trajectory(k, j, s, t) : <<k, j, s, t>> \in
        {q \in (1..MaxPhase) \X (1..MaxPhase) \X {10, 20} \X {10, 20} : q[2] * q[4] <= q[1] * q[3]}}

FrameRates == {30, 60}

ExerciseTypes == {"squat", "general"}

NoVideo == [fps |-> 0, pose_data |-> <<>>, exercise_type |-> "", velocity_metrics |-> NoMetrics, stage |-> "opened"]

\* process_video has read the frames of a video and gathered its pose data
ProcessVideo ==
    /\ vel.stage = "opened"
    /\ \E fps \in FrameRates, pose_data \in SquatTrajectories, exercise_type \in ExerciseTypes :
          vel' = [NoVideo EXCEPT !.fps = fps, !.pose_data = pose_data,
                                 !.exercise_type = exercise_type, !.stage = "processed"]
    /\ UNCHANGED <<calVars, trkVars, regVars, vbtVars, detVars>>

\* velocity_calc = MovementVelocityCalculator(calibration_mgr, fps=fps);
\* velocity_metrics = velocity_calc.calculate_movement_metrics(pose_data, exercise_type)
VelocityAnalysis ==
    /\ vel.stage = "processed"
    /\ vel' = [vel EXCEPT !.velocity_metrics = calculate_movement_metrics(MovementVelocityCalculatorInit(vel.fps), vel.pose_data, vel.exercise_type),
                          !.stage = "analysed"]
    /\ UNCHANGED <<calVars, trkVars, regVars, vbtVars, detVars>>

NextVel == ProcessVideo \/ VelocityAnalysis

(***************************************************************************)
(* A BarbellTracker under direct calls of its methods, with arguments of   *)
(* the declared types (lock_to_position(x: float, y: float)).  direct holds   *)
(* the tracker, the number of detect calls and of the calls that selected  *)
(* a candidate since the tracker was created or last reset, and the last   *)
(* call with what it returned.                                             *)
(***************************************************************************)
\* the cap on the detect calls between two resets
MaxCalls == 3

NoArgs == [x |-> None, y |-> None, outcome |-> NoOutcome]

DirectInit ==
    [tracker |-> initialize(BarbellTrackerInit, TRUE).self, calls |-> 0, selections |-> 0,
     op |-> "", args |-> NoArgs, ret |-> NoKeys, raised |-> ""]

\* where the client locks
DirectLocks == {<<Num(100), Num(100)>>, <<Num(400), Num(100)>>}

\* what the model finds on a frame: nothing; a box at (100, 100); a box 200
\* pixels from there, 300 pixels from there; a weak box near it with a strong
\* one far away; two boxes of one confidence
DirectFrames ==
    {<<>>,
     <<Box(100, 100, 40, 20, 9)>>,
     <<Box(300, 100, 40, 20, 9)>>,
     <<Box(400, 100, 40, 20, 9)>>,
     <<Box(110, 100, 40, 20, 3), Box(400, 100, 40, 20, 9)>>,
     <<Box(300, 100, 40, 20, 5), Box(110, 100, 30, 30, 5)>>}

DirectOutcomes ==
    {[raises |-> TRUE, boxes |-> <<>>, elapsed_ms |-> Num(0)]}
    \cup [raises : {FALSE}, boxes : DirectFrames, elapsed_ms : {Num(8)}]

\* the loop of detect over the boxes of the outcome finds a best_detection
Selects(self, outcome) ==
    /\ self._initialized
    /\ ~outcome.raises
    /\ BoxLoop(self, outcome.boxes, 1, NoBest).raised = ""
    /\ BoxLoop(self, outcome.boxes, 1, NoBest).found

\* the call op with the arguments args returned r
DirectCalled(op, args, r, calls, selections) ==
    direct' = [tracker |-> r.self, calls |-> calls, selections |-> selections,
            op |-> op, args |-> args, ret |-> r.ret, raised |-> r.raised]

DetDetect ==
    /\ direct.calls < MaxCalls
    /\ \E o \in DirectOutcomes :
          DirectCalled("detect", [NoArgs EXCEPT !.outcome = o], detect(direct.tracker, o),
                       direct.calls + 1,
                       IF Selects(direct.tracker, o) THEN direct.selections + 1 ELSE direct.selections)
    /\ UNCHANGED <<calVars, trkVars, regVars, vbtVars, velVars>>

DetLock ==
    /\ \E a \in DirectLocks :
          DirectCalled("lock_to_position", [NoArgs EXCEPT !.x = a[1], !.y = a[2]],
                       lock_to_position(direct.tracker, a[1], a[2]), direct.calls, direct.selections)
    /\ UNCHANGED <<calVars, trkVars, regVars, vbtVars, velVars>>

DetUnlock ==
    /\ DirectCalled("unlock", NoArgs, unlock(direct.tracker), direct.calls, direct.selections)
    /\ UNCHANGED <<calVars, trkVars, regVars, vbtVars, velVars>>

DetReset ==
    /\ DirectCalled("reset", NoArgs, reset(direct.tracker), 0, 0)
    /\ UNCHANGED <<calVars, trkVars, regVars, vbtVars, velVars>>

\* the ping command of the connection: it reads the two counters
DetPing ==
    /\ DirectCalled("ping", NoArgs, Command(direct.tracker, Str("ping"), Num(0), Num(0)),
                    direct.calls, direct.selections)
    /\ UNCHANGED <<calVars, trkVars, regVars, vbtVars, velVars>>

NextDet ==
    \/ DetDetect
    \/ DetLock
    \/ DetUnlock
    \/ DetReset
    \/ DetPing

(***************************************************************************)
(* Specifications                                                          *)
(***************************************************************************)
NoCall == Called("", None, None, Ret(CalibrationManagerInit, None))

Init ==
    /\ mgr = CalibrationManagerInit
    /\ cal_ret = NoCall
    /\ session = "closed"
    /\ message = NoMessage
    /\ tracker = BarbellTrackerInit
    /\ response = NoKeys
    /\ conn = [c \in Conns |-> ClosedConn]
    /\ active_trackers = EmptyRegistry
    /\ running = "none"
    /\ vbt_uploads = NoUploads
    /\ vbt_tasks = NoTasks
    /\ vbt_lock = ""
    /\ unit = [x \in Units |-> Idle]
    /\ loop = "none"
    /\ access = NoAccess
    /\ vbt_ret = NoResponse
    /\ vel = NoVideo
    /\ direct = DirectInit

Next == NextCal \/ NextTrk \/ NextReg \/ NextVbt \/ NextVel \/ NextDet

\* the calibration manager alone
SpecCal == Init /\ [][NextCal]_vars

\* one tracking connection alone
SpecTrk == Init /\ [][NextTrk]_vars

\* the connections of one event loop and their registry
SpecReg == Init /\ [][NextReg]_vars

\* the VBT endpoints and the background task
SpecVbt == Init /\ [][NextVbt]_vars

\* the velocity analysis of a processed video
SpecVel == Init /\ [][NextVel]_vars

\* a tracker under direct calls of its methods
SpecDet == Init /\ [][NextDet]_vars

Spec == Init /\ [][Next]_vars

(***************************************************************************)
(* Properties of the calibration manager (under SpecCal)                   *)
(***************************************************************************)
Positive(v) == IsNum(v) /\ v.n > 0

\* C1: in every reachable state pixels_per_meter is non-null and > 0 if and
\* only if calibration_tier is not tier3_relative.
C1_PixelsPerMeterIffTier ==
    Positive(mgr.pixels_per_meter) <=> mgr.calibration_tier # "tier3_relative"

\* C2: get_calibration_info reports the unit "speed_index" exactly when the
\* manager is not calibrated and "m/s" exactly when it is.
C2_TruthfulUnit ==
    /\ get_calibration_info(mgr).unit = "speed_index" <=> ~is_calibrated(mgr)
    /\ get_calibration_info(mgr).unit = "m/s" <=> is_calibrated(mgr)

\* C3: while is_calibrated() is false, convert_pixels_to_meters(px) returns
\* exactly 0 for every px, and is_calibrated() is true iff pixels_per_meter
\* is set (is not None).
C3_UncalibratedConvertsToZero ==
    /\ ~is_calibrated(mgr) =>
          \A px \in PixelDistances :
              /\ convert_pixels_to_meters(mgr, px).ret = Num(0)
              /\ convert_pixels_to_meters(mgr, px).raised = ""
    /\ cal_ret.op = "convert_pixels_to_meters" /\ IsNone(mgr.pixels_per_meter) =>
          cal_ret.ret = Num(0) /\ cal_ret.raised = ""
    /\ cal_ret.op = "is_calibrated" =>
          (cal_ret.ret = Bool(TRUE) <=> mgr.pixels_per_meter # None)

\* a conversion of 150 pixels answered 0 by a manager that had been calibrated
\* and fell back to the relative mode
C3_Witness ==
    /\ cal_ret.op = "convert_pixels_to_meters"
    /\ cal_ret.a = Num(150)
    /\ cal_ret.ret = Num(0)
    /\ mgr.pixels_per_meter = None
    /\ mgr.calibration_method = "relative"
    /\ mgr.reference_object = "barbell_plate"

\* C10: calibrate_from_barbell(h, d) returns false iff h <= 20; for h > 20 it
\* returns true and sets pixels_per_meter = h / d, confidence 0.85 and the
\* tier tier2_reference; it fails for h = 20 and succeeds for h = 21.
C10_BarbellBoundary ==
    cal_ret.op = "calibrate_from_barbell" =>
        /\ cal_ret.raised = ""
        /\ cal_ret.ret = Bool(FALSE) <=> cal_ret.a.n <= 20 * cal_ret.a.d
        /\ cal_ret.a.n > 20 * cal_ret.a.d =>
              /\ cal_ret.ret = Bool(TRUE)
              /\ mgr.pixels_per_meter.k = "num"
              /\ mgr.pixels_per_meter.n * cal_ret.a.d * cal_ret.b.n
                     = cal_ret.a.n * cal_ret.b.d * mgr.pixels_per_meter.d
              /\ mgr.confidence = Frac(85, 100)
              /\ mgr.calibration_tier = "tier2_reference"
        /\ cal_ret.a = Num(20) => cal_ret.ret = Bool(FALSE)
        /\ cal_ret.a = Num(21) => cal_ret.ret = Bool(TRUE)

\* a 21 pixel box on a 0.45 m plate: 21 / 0.45 = 140/3 pixels per meter
C10_Witness ==
    /\ cal_ret.op = "calibrate_from_barbell"
    /\ cal_ret.a = Num(21)
    /\ cal_ret.b = Frac(45, 100)
    /\ cal_ret.ret = Bool(TRUE)
    /\ mgr.pixels_per_meter = Frac(140, 3)

\* the calibration fields of a manager
CalibrationFields(self) ==
    <<self.pixels_per_meter, self.calibration_tier, self.calibration_method,
      self.confidence, self.reference_object>>

\* the step is a tier-2 calibration call with too small a measure
C11_FailingCall ==
    \/ /\ cal_ret'.op = "calibrate_from_barbell"
       /\ RLeq(cal_ret'.a, Num(20))
    \/ /\ cal_ret'.op = "calibrate_from_user_height"
       /\ RLeq(cal_ret'.b, Num(20)) \/ RLeq(cal_ret'.a, Num(0))

C11_Step ==
    C11_FailingCall =>
        /\ cal_ret'.raised = ""
        /\ cal_ret'.ret = Bool(FALSE)
        /\ CalibrationFields(mgr') = CalibrationFields(mgr)
        /\ mgr' = mgr
        /\ ~is_calibrated(mgr) => ~is_calibrated(mgr')

\* C11: a failing tier-2 calibration call (calibrate_from_barbell with box
\* height <= 20, calibrate_from_user_height with shoulder-to-hip pixels <= 20
\* or height <= 0) returns false and leaves pixels_per_meter, tier, method,
\* confidence and reference object unchanged; an uncalibrated manager stays
\* uncalibrated.
C11_FailedCalibrationNoChange == [][C11_Step]_vars

\* calibrate_from_user_height(0, 90) refused by a manager calibrated from a
\* barbell: the call returned False and the barbell calibration is kept
C11_Witness ==
    /\ cal_ret.op = "calibrate_from_user_height"
    /\ cal_ret.a = Num(0)
    /\ cal_ret.b = Num(90)
    /\ cal_ret.ret = Bool(FALSE)
    /\ mgr.calibration_method = "barbell"
    /\ mgr.pixels_per_meter = Frac(100 * 100, 45)
    /\ mgr.confidence = Frac(85, 100)

\* the arguments of the calibrate_auto call of the step
GivenAbove(v, limit) == IF IsNone(v) THEN FALSE ELSE RLess(limit, v)

ByDepth == cal_ret'.has_depth

ByBarbell == ~ByDepth /\ GivenAbove(cal_ret'.a, Num(20))

ByUserHeight ==
    /\ ~ByDepth
    /\ ~ByBarbell
    /\ GivenAbove(cal_ret'.b, Num(0))
    /\ GivenAbove(cal_ret'.c, Num(20))

C12_Step ==
    cal_ret'.op = "calibrate_auto" =>
        /\ ByDepth => mgr'.calibration_tier = "tier1_lidar"
        /\ ByBarbell =>
              /\ mgr'.calibration_tier = "tier2_reference"
              /\ mgr'.calibration_method = "barbell"
              /\ mgr'.confidence = Frac(85, 100)
        /\ ByUserHeight =>
              /\ mgr'.calibration_tier = "tier2_reference"
              /\ mgr'.calibration_method = "user_height"
              /\ mgr'.confidence = Frac(70, 100)
        /\ (~ByDepth /\ ~ByBarbell /\ ~ByUserHeight) =>
              /\ mgr'.calibration_tier = "tier3_relative"
              /\ mgr'.pixels_per_meter = None
              /\ mgr'.confidence = Frac(50, 100)
        /\ cal_ret'.ret = Str(mgr'.calibration_tier)

\* C12: calibrate_auto selects the tier in strict priority order for every
\* combination of inputs and every prior state: tier1_lidar whenever depth
\* data is given; otherwise tier2_reference via barbell (confidence 0.85) for
\* a box height > 20; otherwise tier2_reference via user height (confidence
\* 0.70) for height > 0 and shoulder-to-hip pixels > 20; otherwise
\* tier3_relative with pixels_per_meter unset and confidence 0.50; the
\* returned tier is the stored calibration_tier.
C12_TierPriority == [][C12_Step]_vars

\* the value of a key of depth_data, or the default of its get
DepthOr(v, default) == IF IsNone(v) THEN default ELSE v

\* C13: calibrate_auto never raises and returns one of the three tiers; with
\* depth data it sets pixels_per_meter = focal_length / average_depth,
\* confidence 0.95 and tier1_lidar.
C13_CalibrationNeverRaises ==
    cal_ret.op = "calibrate_auto" =>
        /\ cal_ret.raised = ""
        /\ cal_ret.ret \in {Str("tier1_lidar"), Str("tier2_reference"), Str("tier3_relative")}
        /\ cal_ret.has_depth =>
              /\ mgr.calibration_tier = "tier1_lidar"
              /\ mgr.confidence = Frac(95, 100)
              /\ IsNum(mgr.pixels_per_meter)
              /\ RMul(mgr.pixels_per_meter, DepthOr(cal_ret.depth_data.average_depth, Num(2)))
                    = DepthOr(cal_ret.depth_data.focal_length, Num(1000))

(***************************************************************************)
(* Properties of the tracker and its connection (under SpecTrk)            *)
(***************************************************************************)
\* the step handles a frame in which detect selected a detection
SelectsDetection ==
    /\ message'.kind = "bytes"
    /\ message'.decodes
    /\ tracker'.detection_count = tracker.detection_count + 1

\* the detection the step selected is box i of the frame: detect answers its
\* size and confidence and moved the smoothed position towards its centre
SelectedIs(i) ==
    /\ SelectsDetection
    /\ response'.w = Candidate(message'.outcome.boxes[i]).w
    /\ response'.h = Candidate(message'.outcome.boxes[i]).h
    /\ response'.conf = Candidate(message'.outcome.boxes[i]).conf
    /\ tracker'.smoothed_x
         = RAdd(RMul(Frac(4, 10), Candidate(message'.outcome.boxes[i]).x),
                RMul(Frac(6, 10), tracker.smoothed_x))
    /\ tracker'.smoothed_y
         = RAdd(RMul(Frac(4, 10), Candidate(message'.outcome.boxes[i]).y),
                RMul(Frac(6, 10), tracker.smoothed_y))

\* box i of the frame lies farther than lock_radius from the lock
BeyondLock(i) ==
    /\ tracker.locked_position.k = "tuple"
    /\ IsNum(tracker.locked_position.x)
    /\ IsNum(tracker.locked_position.y)
    /\ RLess(RMul(tracker.lock_radius, tracker.lock_radius),
             DistSquared(Candidate(message'.outcome.boxes[i]), tracker.locked_position))

C4_Step ==
    message'.kind = "bytes" =>
        \A i \in 1..Len(message'.outcome.boxes) : BeyondLock(i) => ~SelectedIs(i)

\* C4: while the tracker is locked, a candidate whose distance from the lock
\* position exceeds lock_radius is never the selected detection, whatever its
\* confidence and whatever the other candidates are.
C4_FarCandidateNeverSelected == [][C4_Step]_vars

\* locked at (10, 10), the frame held a box of confidence 0.9 at (250, 160),
\* 283 pixels away, and one of confidence 0.3 at (20, 20): the second was
\* selected
C4_Witness ==
    /\ message.kind = "bytes"
    /\ message.outcome.boxes = <<Box(250, 160, 40, 20, 9), Box(20, 20, 40, 20, 3)>>
    /\ response.conf = Frac(3, 10)
    /\ tracker.detection_count = 1
    /\ tracker.locked_position = Locked(Num(14), Num(14))

\* C5: in every reachable state, whenever locked_position is set it equals
\* (smoothed_x, smoothed_y).
C5_LockFollowsSmoothed ==
    tracker.locked_position.k = "tuple" =>
        /\ tracker.locked_position.x = tracker.smoothed_x
        /\ tracker.locked_position.y = tracker.smoothed_y

\* a lock at (10, 10) that followed a detection at (20, 20) to (14, 14)
C5_Witness ==
    /\ message.kind = "bytes"
    /\ tracker.detection_count > 0
    /\ tracker.locked_position = Locked(Num(14), Num(14))
    /\ tracker.smoothed_x = Num(14)
    /\ tracker.smoothed_y = Num(14)

\* the raw centres (10, 10) and (20, 20), one to a frame
C6_First == [raises |-> FALSE, boxes |-> <<Box(10, 10, 40, 20, 9)>>, elapsed_ms |-> Num(8)]

C6_Second == [raises |-> FALSE, boxes |-> <<Box(20, 20, 40, 20, 9)>>, elapsed_ms |-> Num(8)]

\* a fresh unlocked tracker whose model is loaded
C6_Fresh == initialize(BarbellTrackerInit, TRUE).self

C6_Example ==
    /\ detect(C6_Fresh, C6_First).ret.x = Num(10)
    /\ detect(C6_Fresh, C6_First).ret.y = Num(10)
    /\ detect(detect(C6_Fresh, C6_First).self, C6_Second).ret.x = Num(14)
    /\ detect(detect(C6_Fresh, C6_First).self, C6_Second).ret.y = Num(14)

\* the same on the connection: the first frame of an unlocked tracker is
\* answered with its raw centre, and the frame (20, 20) after (10, 10) with
\* (14, 14)
C6_ExampleStep ==
    (/\ message'.kind = "bytes"
     /\ message'.decodes
     /\ tracker.locked_position = NoLock)
    => /\ (tracker.smoothed_x = None /\ message'.outcome.boxes = C6_First.boxes)
            => (response'.x = Num(10) /\ response'.y = Num(10))
       /\ (/\ tracker.smoothed_x = Num(10)
           /\ tracker.smoothed_y = Num(10)
           /\ message'.outcome.boxes = C6_Second.boxes)
            => (response'.x = Num(14) /\ response'.y = Num(14))

\* the smoothed position after a detection centred at c
C6_Smoothed(c, i) ==
    /\ response'.w = Candidate(message'.outcome.boxes[i]).w
    /\ response'.h = Candidate(message'.outcome.boxes[i]).h
    /\ response'.conf = Candidate(message'.outcome.boxes[i]).conf
    /\ IF IsNone(tracker.smoothed_x)
       THEN tracker'.smoothed_x = c.x /\ tracker'.smoothed_y = c.y
       ELSE /\ tracker'.smoothed_x
                 = RAdd(RMul(Frac(4, 10), c.x), RMul(Frac(6, 10), tracker.smoothed_x))
            /\ tracker'.smoothed_y
                 = RAdd(RMul(Frac(4, 10), c.y), RMul(Frac(6, 10), tracker.smoothed_y))
    /\ response'.x = tracker'.smoothed_x
    /\ response'.y = tracker'.smoothed_y

C6_Step ==
    (/\ SelectsDetection
     /\ IsNone(tracker.smoothed_x) \/ (IsNum(tracker.smoothed_x) /\ IsNum(tracker.smoothed_y)))
    => \E i \in 1..Len(message'.outcome.boxes) :
           C6_Smoothed(Candidate(message'.outcome.boxes[i]), i)

\* C6: when the smoothed position is unset a selected detection sets it to the
\* raw centre; otherwise the new smoothed value is 0.4 * raw + 0.6 * previous
\* per axis, and detect returns the smoothed x and y; the raw centres (10, 10)
\* then (20, 20) on a fresh unlocked tracker return (10, 10) then (14, 14).
C6_EmaSmoothing == [][C6_Example /\ C6_ExampleStep /\ C6_Step]_vars

\* the second frame of an unlocked tracker, answered with (14, 14)
C6_Witness ==
    /\ message.kind = "bytes"
    /\ message.outcome.boxes = <<Box(20, 20, 40, 20, 9)>>
    /\ tracker.locked_position = NoLock
    /\ tracker.frame_count = 2
    /\ tracker.detection_count = 2
    /\ tracker.smoothed_x = Num(14)
    /\ tracker.smoothed_y = Num(14)
    /\ response.x = Num(14)
    /\ response.y = Num(14)

\* the state is the one a lock command with the numbers x, y left, and the
\* step is a frame whose selected detection is centred at (x, y)
C7_LockThenDetectAt(x, y) ==
    /\ message.kind = "text"
    /\ message.action = Str("lock")
    /\ response.status = Str("locked")
    /\ x = response.x
    /\ y = response.y
    /\ SelectsDetection
    /\ BoxLoop(tracker, message'.outcome.boxes, 1, NoBest).found
    /\ BoxLoop(tracker, message'.outcome.boxes, 1, NoBest).det.x = x
    /\ BoxLoop(tracker, message'.outcome.boxes, 1, NoBest).det.y = y

C7_Step ==
    \A a \in LockArguments :
        C7_LockThenDetectAt(Get(a[1], Num(0)), Get(a[2], Num(0))) =>
            /\ tracker'.smoothed_x = Get(a[1], Num(0))
            /\ tracker'.smoothed_y = Get(a[2], Num(0))
            /\ tracker'.locked_position = Locked(Get(a[1], Num(0)), Get(a[2], Num(0)))

\* C7: lock_to_position(x, y) followed by a detect whose selected candidate
\* is centred exactly at (x, y) leaves the smoothed position equal to (x, y)
\* and the lock position equal to (x, y).
C7_LockThenDetectSame == [][C7_Step]_vars

\* after a detection at (10, 10), a lock to (120, 160) and a frame whose
\* selected box is centred at (120, 160)
C7_Witness ==
    /\ message.kind = "bytes"
    /\ message.outcome.boxes = <<Box(10, 10, 40, 20, 3), Box(120, 160, 30, 30, 9)>>
    /\ response.conf = Frac(9, 10)
    /\ response.x = Num(120)
    /\ response.y = Num(160)
    /\ tracker.frame_count = 2
    /\ tracker.detection_count = 2
    /\ tracker.locked_position = Locked(Num(120), Num(160))

\* lock, smoothed position and counters as __init__ sets them
C8_Cleared(self) ==
    /\ self.locked_position = NoLock
    /\ self.smoothed_x = None
    /\ self.smoothed_y = None
    /\ self.frame_count = BarbellTrackerInit.frame_count
    /\ self.detection_count = BarbellTrackerInit.detection_count

\* C8: from any reachable tracker state reset() clears the lock and the
\* smoothed position and returns frame_count and detection_count to 0, and
\* reset(); reset() yields the same state as a single reset().
C8_ResetIdempotent ==
    /\ C8_Cleared(reset(tracker).self)
    /\ reset(tracker).raised = ""
    /\ reset(reset(tracker).self).self = reset(tracker).self
    /\ (message.kind = "text" /\ message.action = Str("reset")) =>
          /\ C8_Cleared(tracker)
          /\ reset(tracker).self = tracker
          /\ response = [NoKeys EXCEPT !.status = Str("reset")]

\* a reset command answered on a tracker that had handled a frame (the time
\* of the last inference is not a counter and stays)
C8_Witness ==
    /\ message.kind = "text"
    /\ message.action = Str("reset")
    /\ response.status = Str("reset")
    /\ tracker.last_inference_ms # Num(0)
    /\ tracker.frame_count = 0
    /\ tracker.detection_count = 0

C9_Step ==
    (/\ message'.kind = "text"
     /\ message'.parses
     /\ message'.object
     /\ Get(message'.action, Str("")) \notin KnownActions)
    => /\ response'
            = [NoKeys EXCEPT !.error = Str("Unknown action: " \o Get(message'.action, Str("")).s)]
       /\ tracker'.frame_count = tracker.frame_count
       /\ tracker'.detection_count = tracker.detection_count
       /\ tracker'.locked_position = tracker.locked_position
       /\ tracker'.smoothed_x = tracker.smoothed_x
       /\ tracker'.smoothed_y = tracker.smoothed_y
       /\ tracker' = tracker

\* C9: a text command whose action is not lock, unlock, ping or reset is
\* answered with {error: "Unknown action: <action>"} and leaves frame_count,
\* detection_count, lock position and smoothed position of the tracker
\* unchanged.
C9_UnknownActionNoChange == [][C9_Step]_vars

\* {"action": "foo"} answered on a locked tracker that has detections
C9_Witness ==
    /\ message.kind = "text"
    /\ message.action = Str("foo")
    /\ response.error = Str("Unknown action: foo")
    /\ tracker.frame_count > 0
    /\ tracker.detection_count > 0
    /\ tracker.locked_position.k = "tuple"

(***************************************************************************)
(* Properties of the connections and their registry (under SpecReg)        *)
(***************************************************************************)
ActiveConns == {c \in Conns : Active(c)}

\* the registry holds the tracker of connection c
Owns(registry, c) == \E id \in DOMAIN registry : registry[id] = c

\* what the listing says of the connection c
Listed(c) ==
    [client_id |-> conn[c].client_id,
     frame_count |-> conn[c].tracker.frame_count,
     detection_count |-> conn[c].tracker.detection_count,
     locked |-> conn[c].tracker.locked_position # NoLock]

\* C14: the registry holds exactly the connections that are in their message
\* loop, each under its own client_id with its own tracker, and a status or
\* listing request answered between two handler steps reports exactly those
\* connections: their number and, for each, the counters and the lock of its
\* tracker.
C14_RegistryIsActiveSet ==
    /\ \A c \in ActiveConns :
          /\ conn[c].client_id \in DOMAIN active_trackers
          /\ active_trackers[conn[c].client_id] = c
    /\ \A id \in DOMAIN active_trackers :
          /\ active_trackers[id] \in ActiveConns
          /\ conn[active_trackers[id]].client_id = id
    /\ running = "none"
          => /\ neiro_status.active_connections = Cardinality(ActiveConns)
             /\ list_connections.count = Cardinality(ActiveConns)
             /\ list_connections.connections = {Listed(c) : c \in ActiveConns}

\* a connection whose tracker failed to initialize is in none of the states
\* of the message loop, holds no entry of the registry, and has received and
\* answered nothing
Unserved(c) ==
    /\ conn'[c].pc \in {"closed", "accepting", "refusing"}
    /\ ~Owns(active_trackers', c)
    /\ conn'[c].received = 0
    /\ conn'[c].outbox = <<>>
    /\ conn'[c].tracker = BarbellTrackerInit

C15_Step ==
    \A c \in Conns :
        /\ ~conn'[c].tracker._initialized => Unserved(c)
        /\ conn[c].pc = "refusing" => conn'[c].pc \in {"refusing", "closed"} /\ Unserved(c)
        /\ (conn[c].pc = "accepting" /\ conn'[c].pc = "receiving") => conn'[c].tracker._initialized

\* C15: a connection whose detector cannot be initialized is refused: it
\* goes from accepting to refusing to closed, never into the message loop, no
\* entry of the registry ever holds its tracker, and none of the messages its
\* client sent is received or answered.
C15_RefusedNeverServed == [][C15_Step]_vars

\* a connection being refused whose client has already sent a message, next
\* to a connection that is served
C15_Witness ==
    /\ conn["c1"].pc = "refusing"
    /\ conn["c1"].inbox # <<>>
    /\ ~Owns(active_trackers, "c1")
    /\ conn["c2"].pc = "receiving"
    /\ conn["c2"].client_id = conn["c1"].client_id

\* the reply about to go out on c is an error reply
ErrorReply(c) == conn[c].pc = "sending" /\ conn[c].reply.error # Absent

\* the message in hand is m
Handling(c, m) == conn'[c].pc = "sending" /\ conn'[c].current.msg = m

C16_Step ==
    \A c \in Conns :
        /\ Handling(c, Bytes(FALSE, NoOutcome))
              => conn'[c].reply = [NoKeys EXCEPT !.error = Str("Invalid image data")]
        /\ Handling(c, InvalidJSON)
              => conn'[c].reply = [NoKeys EXCEPT !.error = Str("Invalid JSON")]
        /\ Handling(c, Text(Str("foo"), Absent, Absent))
              => conn'[c].reply = [NoKeys EXCEPT !.error = Str("Unknown action: foo")]
        /\ Handling(c, FailingFrame) => conn'[c].reply.error # Absent
        /\ (ErrorReply(c) /\ conn[c].peer = "here" /\ conn'[c].pc # "sending")
              => /\ conn'[c].pc = "receiving"
                 /\ conn'[c].outbox = Append(conn[c].outbox, [for |-> conn[c].current.id,
                                                              body |-> conn[c].reply])
                 /\ conn'[c].tracker = conn[c].tracker
                 /\ conn'[c].inbox = conn[c].inbox
                 /\ active_trackers' = active_trackers
        /\ (Active(c) /\ conn'[c].pc = "closed")
              => \/ conn[c].pc = "receiving" /\ Head(conn[c].inbox).msg = Disconnected
                 \/ conn[c].pc = "closing" /\ conn[c].peer = "gone"

\* C16: an undecodable frame is answered {error: "Invalid image data"},
\* malformed JSON {error: "Invalid JSON"}, an unknown action and a detector
\* failure with an error object; the error reply is delivered on the same
\* connection, after which the handler awaits the next message with the
\* tracker, the waiting messages and the registry as they were; a handler in
\* its message loop ends only on a disconnect message or a send to a peer
\* that is gone.
C16_ErrorsNotFatal == [][C16_Step]_vars

\* an undecodable frame answered with the error, then a frame answered with
\* its detection, the connection still served and registered
C16_Witness ==
    /\ conn["c1"].pc = "receiving"
    /\ Len(conn["c1"].outbox) = 2
    /\ conn["c1"].outbox[1].body.error = Str("Invalid image data")
    /\ conn["c1"].outbox[2].body.error = Absent
    /\ conn["c1"].tracker.detection_count = 1
    /\ Owns(active_trackers, "c1")

\* C17: on each connection the i-th response answers the i-th message
\* received, every received message has one response or is the one in hand,
\* the messages still waiting are the later ones in the order they were
\* sent, and a message is taken in hand only when all earlier ones have been
\* answered.
C17_InOrder ==
    \A c \in Conns :
        /\ \A i \in 1..Len(conn[c].outbox) : conn[c].outbox[i].for = i
        /\ conn[c].pc \in {"inferring", "sending"}
              => /\ conn[c].received = Len(conn[c].outbox) + 1
                 /\ conn[c].current.id = conn[c].received
        /\ conn[c].pc \in {"closed", "accepting", "refusing", "receiving"}
              => conn[c].received = Len(conn[c].outbox)
        /\ \A j \in 1..Len(conn[c].inbox) :
              conn[c].inbox[j].id \in {0, conn[c].received + j}
        /\ conn[c].writes >= Len(conn[c].outbox)

\* an unknown action answered first and malformed JSON second
C17_Witness ==
    /\ Len(conn["c2"].outbox) = 2
    /\ conn["c2"].outbox[1].for = 1
    /\ conn["c2"].outbox[1].body.error = Str("Unknown action: foo")
    /\ conn["c2"].outbox[2].for = 2
    /\ conn["c2"].outbox[2].body.error = Str("Invalid JSON")
    /\ conn["c2"].writes = 2

\* a message of connection b waits while the handler of b awaits receive
Pending(b) == conn[b].pc = "receiving" /\ conn[b].inbox # <<>>

\* C18: while the inference of one connection is in flight, a message that
\* waits on another connection can be taken in hand by that connection's
\* handler.
C18_InferenceDoesNotBlock ==
    \A a, b \in Conns :
        (a # b /\ conn[a].pc = "inferring" /\ Pending(b)) => ENABLED Receive(b)

\* a step of the handler of c after a send on c has failed
KnowsGone(c) == conn[c].pc \in {"reporting", "closing"}

C19_Step ==
    \A c \in Conns :
        /\ (KnowsGone(c) /\ conn'[c].pc # "closed")
              => /\ conn'[c].writes = conn[c].writes
                 /\ conn'[c].tracker = conn[c].tracker
        /\ (Active(c) /\ conn'[c].pc = "closed") => ~Owns(active_trackers', c)

\* C19: once a send on a connection has failed because the peer is gone, the
\* handler calls no further send on it and does no further tracker work for
\* it, and when the handler ends, on that or on a disconnect message, no
\* entry of the registry holds its tracker.
C19_NoWriteAfterDisconnect == [][C19_Step]_vars

(***************************************************************************)
(* Properties of the VBT endpoints and their shared maps (under SpecVbt)   *)
(***************************************************************************)
\* the unit y has begun and not finished a group of accesses to the map:
\* the statements under one "with vbt_lock:", one iteration over a dict, or
\* the reads of one request
MidSection(y, map) ==
    \/ y \in Uploaders /\ unit[y].pc = "reading" /\ map = "vbt_uploads"
    \/ y = "worker" /\ unit[y].pc \in {"begun", "completed"} /\ map = "vbt_tasks"
    \/ y = "worker" /\ unit[y].pc = "unlinking" /\ map = "vbt_uploads"
    \/ y = "status" /\ unit[y].pc = "reading" /\ map = "vbt_tasks"
    \/ y = "results" /\ unit[y].pc = "returning" /\ map = "vbt_tasks"

C20_Step ==
    access'.map # "" => \A y \in Units \ {access'.by} : ~MidSection(y, access'.map)

\* C20: no coroutine or thread reads or writes vbt_uploads or vbt_tasks
\* while another one is in the middle of its accesses to the same map: the
\* accesses of each are made under vbt_lock or in a step the others cannot
\* interleave with.
C20_SharedMapsSynchronized == [][C20_Step]_vars

(***************************************************************************)
(* Properties of the velocity analysis (under SpecVel)                     *)
(***************************************************************************)
\* |a - b| <= tolerance
Within(a, b, tolerance) == RLeq(RSub(a, b), tolerance) /\ RLeq(RNeg(tolerance), RSub(a, b))

\* C21: the velocity metrics of a trajectory of one squat (a monotonic
\* descent, then a monotonic ascent) report exactly one completed rep, and
\* its concentric duration plus its eccentric duration is the rep duration
\* within one frame interval 1 / fps.
C21_OneRepDurations ==
    vel.stage = "analysed"
        => /\ IsNum(vel.velocity_metrics.concentric_duration)
           /\ IsNum(vel.velocity_metrics.eccentric_duration)
           /\ IsNum(vel.velocity_metrics.rep_duration)
           /\ Within(RAdd(vel.velocity_metrics.concentric_duration,
                          vel.velocity_metrics.eccentric_duration),
                     vel.velocity_metrics.rep_duration,
                     Frac(1, vel.fps))
           /\ vel.velocity_metrics.reps = Num(1)

(***************************************************************************)
(* Properties of the tracker called directly (under SpecDet)               *)
(***************************************************************************)
\* the step is a detect call whose model call returned results
DetectStep == direct'.op = "detect" /\ ~direct'.args.outcome.raises

\* the candidate survives the filter of the tracker: any candidate when there
\* is no lock, one with dist <= lock_radius when there is
Survives(self, c) ==
    \/ self.locked_position.k # "tuple"
    \/ ~RLess(RMul(self.lock_radius, self.lock_radius), DistSquared(c, self.locked_position))

\* the score of the candidate: conf, or conf * (1 - dist / lock_radius)
ScoreOf(self, c) ==
    [conf |-> c.conf,
     q |-> IF self.locked_position.k = "tuple" THEN DistSquared(c, self.locked_position) ELSE Num(0)]

\* the boxes of the frame that survive
Survivors(self, boxes) == {i \in 1..Len(boxes) : Survives(self, Candidate(boxes[i]))}

\* no surviving box of the frame has a greater score than box i
Maximal(self, boxes, i) ==
    \A j \in Survivors(self, boxes) :
        ~ScoreGreater(ScoreOf(self, Candidate(boxes[j])), ScoreOf(self, Candidate(boxes[i])), self.lock_radius)

\* the call returned the zero result
ZeroResult(ret) ==
    ret.x = Num(0) /\ ret.y = Num(0) /\ ret.w = Num(0) /\ ret.h = Num(0) /\ ret.conf = Num(0)

\* the call returned box i as its detection
Returned(ret, boxes, i) ==
    /\ ret.w = Candidate(boxes[i]).w
    /\ ret.h = Candidate(boxes[i]).h
    /\ ret.conf = Candidate(boxes[i]).conf

C22_Step ==
    DetectStep =>
        /\ Survivors(direct.tracker, direct'.args.outcome.boxes) # {}
              => /\ direct'.tracker.detection_count = direct.tracker.detection_count + 1
                 /\ \E i \in Survivors(direct.tracker, direct'.args.outcome.boxes) :
                       /\ Maximal(direct.tracker, direct'.args.outcome.boxes, i)
                       /\ Returned(direct'.ret, direct'.args.outcome.boxes, i)
        /\ ZeroResult(direct'.ret)
              => Survivors(direct.tracker, direct'.args.outcome.boxes) = {}

\* C22: whenever a candidate of the frame survives the filter of detect (any
\* candidate without a lock, a candidate at most lock_radius from the lock
\* with one), detect selects a candidate of maximal score and counts it as a
\* detection; it returns the zero result only when no candidate survives.
C22_MaxScoreSelected == [][C22_Step]_vars

\* the call returned a detection: no error and not the zero result
SelectedResult(d) ==
    /\ d.op = "detect"
    /\ d.raised = ""
    /\ d.ret.error = Absent
    /\ ~ZeroResult(d.ret)

\* the call returned what detect returns when the detector failed
FailureResult(ret) == ret.error # Absent /\ ret.inference_ms = Num(0)

C23_Step ==
    direct'.op = "detect" =>
        /\ direct'.tracker.frame_count = direct.tracker.frame_count + 1
        /\ direct'.tracker.detection_count
             = direct.tracker.detection_count + (IF SelectedResult(direct') THEN 1 ELSE 0)
        /\ direct'.args.outcome.raises => FailureResult(direct'.ret)
        /\ ~SelectedResult(direct')
              => /\ direct'.tracker.smoothed_x = direct.tracker.smoothed_x
                 /\ direct'.tracker.smoothed_y = direct.tracker.smoothed_y
                 /\ direct'.tracker.locked_position = direct.tracker.locked_position

\* C23: every detect call on an initialized tracker increments frame_count by
\* exactly 1, also when the detector fails or no candidate is selected;
\* detection_count is incremented by exactly 1 iff a candidate is selected;
\* when the detector fails (result {error, inference_ms: 0}) or no candidate
\* is selected, the smoothed position and the lock position are unchanged.
C23_DetectCounts == [][C23_Step]_vars

\* a locked tracker that selected a detection on its first frame has just
\* been through a failure of the detector on its second
C23_Witness ==
    /\ direct.op = "detect"
    /\ direct.args.outcome.raises
    /\ FailureResult(direct.ret)
    /\ direct.tracker.locked_position.k = "tuple"
    /\ direct.tracker.frame_count = 2
    /\ direct.tracker.detection_count = 1

\* no box of the frame has a greater confidence than box i
MostConfident(boxes, i) == \A j \in 1..Len(boxes) : RLeq(boxes[j].conf, boxes[i].conf)

\* the smoothed coordinate after a detection at new: new itself when there
\* was none, and otherwise the moving average continued from old
Continued(self, new, old) == IF IsNone(old) THEN new ELSE Ema(self.ema_alpha, new, old)

C24_Step ==
    /\ direct'.op = "unlock"
          => direct'.tracker = [direct.tracker EXCEPT !.locked_position = NoLock]
    /\ direct.op = "unlock" /\ DetectStep /\ direct'.args.outcome.boxes # <<>>
          => \E i \in 1..Len(direct'.args.outcome.boxes) :
                /\ MostConfident(direct'.args.outcome.boxes, i)
                /\ Returned(direct'.ret, direct'.args.outcome.boxes, i)
                /\ direct'.tracker.smoothed_x
                     = Continued(direct.tracker, Candidate(direct'.args.outcome.boxes[i]).x,
                                 direct.tracker.smoothed_x)
                /\ direct'.tracker.smoothed_y
                     = Continued(direct.tracker, Candidate(direct'.args.outcome.boxes[i]).y,
                                 direct.tracker.smoothed_y)
                /\ direct'.ret.x = direct'.tracker.smoothed_x
                /\ direct'.ret.y = direct'.tracker.smoothed_y

\* C24: unlock() clears the lock position and changes nothing else (the
\* smoothed position and the counters are retained); the next detect after it
\* considers the whole frame: it selects the candidate of highest confidence
\* whatever its distance from the former lock, and the moving average
\* continues from the retained smoothed position.
C24_UnlockClearsOnlyLock == [][C24_Step]_vars

\* the only detect since the tracker was locked at (100, 100) and unlocked
\* met a weak box 10 pixels and a strong box 300 pixels from the former lock:
\* it selected the strong one and moved the smoothed position from 100 to
\* 0.4 * 400 + 0.6 * 100 = 220
C24_Witness ==
    /\ direct.op = "detect"
    /\ direct.args.outcome.boxes = <<Box(110, 100, 40, 20, 3), Box(400, 100, 40, 20, 9)>>
    /\ direct.tracker.locked_position = NoLock
    /\ direct.tracker.frame_count = 1
    /\ direct.tracker.detection_count = 1
    /\ direct.ret.conf = Frac(9, 10)
    /\ direct.tracker.smoothed_x = Num(220)
    /\ direct.tracker.smoothed_y = Num(100)

\* C25: in every state reachable by detect, lock, unlock, reset and ping on a
\* tracker, 0 <= detection_count <= frame_count; frame_count is the number of
\* detect calls and detection_count the number of selections since the
\* tracker was created or last reset, and these are the counts ping reports.
C25_CountsAreCalls ==
    /\ 0 <= direct.tracker.detection_count
    /\ direct.tracker.detection_count <= direct.tracker.frame_count
    /\ direct.tracker.frame_count = direct.calls
    /\ direct.tracker.detection_count = direct.selections
    /\ direct.op = "ping"
          => /\ direct.ret.frame_count = Num(direct.calls)
             /\ direct.ret.detection_count = Num(direct.selections)

\* a ping on a locked tracker that was called with three frames and selected
\* a detection on two of them
C25_Witness ==
    /\ direct.op = "ping"
    /\ direct.ret.status = Str("pong")
    /\ direct.calls = 3
    /\ direct.selections = 2
    /\ direct.ret.frame_count = Num(3)
    /\ direct.ret.detection_count = Num(2)
    /\ direct.tracker.locked_position.k = "tuple"

(***************************************************************************)
(* Commands answered with an error (under SpecTrk)                         *)
(***************************************************************************)
C26_Step ==
    message'.kind = "text" =>
        /\ response'.error # Absent => tracker' = tracker
        /\ tracker' # tracker => response'.status # Absent /\ response'.error = Absent

\* C26: a text command that is answered with {error: ...} (malformed JSON,
\* JSON that is no object, an unknown action, a lock command whose x or y is
\* no number) leaves the lock position, the smoothed position and the counters
\* of the tracker as they were; only a command acknowledged with a status
\* changes the tracker.
C26_ErrorLeavesTracker == [][C26_Step]_vars

(***************************************************************************)
(* One connection and the registry entry of another (under SpecReg)        *)
(***************************************************************************)
\* the states of a connection between its registration and its cleanup
LoopStates == {"receiving", "inferring", "sending", "reporting", "closing"}

C27_Step ==
    \A c \in Conns :
        (/\ conn[c].pc \in LoopStates
         /\ conn'[c].pc \in LoopStates
         /\ conn[c].client_id \in DOMAIN active_trackers
         /\ active_trackers[conn[c].client_id] = c)
        => /\ conn[c].client_id \in DOMAIN active_trackers'
           /\ active_trackers'[conn[c].client_id] = c

\* C27: closing one connection removes only the tracker of that connection:
\* of two connections that are Active at the same time, the cleanup of one
\* never removes or replaces the registry entry of the other, and registering
\* a connection never overwrites the entry of one that is still Active.
C27_OwnEntryOnly == [][C27_Step]_vars

(***************************************************************************)
(* The lock, the tasks and the uploads (under SpecVbt)                     *)
(***************************************************************************)
\* the coroutine u is suspended in "await chunk.read()" inside its
\* "with vbt_lock:" block
SuspendedHolding(u) == vbt_lock = u /\ unit[u].pc = "reading" /\ loop # u

\* the event loop is inside a request that waits in "with vbt_lock:" for a
\* lock held by another unit
LoopBlocked == loop # "none" /\ unit[loop].pc = "locking" /\ vbt_lock \notin {"", loop}

\* C28: chunk upload is free of deadlock: in no interleaving of upload
\* requests, status queries and processing tasks is vbt_lock held by a
\* coroutine that is suspended while another task of the same event loop
\* blocks waiting for the lock, so that every request that waits for the lock
\* can go on.
C28_NoSuspendedHolder == ~(\E u \in Uploaders : SuspendedHolding(u) /\ LoopBlocked)

\* the status of a task goes from old to new in one step of the life cycle
StatusMove(old, new) ==
    \/ old = "pending" /\ new = "processing"
    \/ old = "processing" /\ new \in {"completed", "failed"}

\* the status of the task changes only along the life cycle
C29_LifeCycle ==
    ("t1" \in DOMAIN vbt_tasks /\ vbt_tasks'["t1"].status # vbt_tasks["t1"].status)
        => StatusMove(vbt_tasks["t1"].status, vbt_tasks'["t1"].status)

\* a task that is not completed has no results
C29_ResultsOnlyCompleted ==
    "t1" \in DOMAIN vbt_tasks'
        => (vbt_tasks'["t1"].results # "None" => vbt_tasks'["t1"].status = "completed")

\* the answer of the results endpoint: the results of a completed task, 404
\* for an unknown task, 400 for a task in another status
C29_ResultsEndpoint ==
    vbt_ret'.to = "results" /\ vbt_ret'.code # 0
        => IF "t1" \notin DOMAIN vbt_tasks
           THEN vbt_ret'.code = 404
           ELSE IF vbt_tasks'["t1"].status = "completed"
           THEN vbt_ret'.code = 200 /\ vbt_ret'.results = "results"
           ELSE vbt_ret'.code = 400

C29_Step == C29_LifeCycle /\ C29_ResultsOnlyCompleted /\ C29_ResultsEndpoint

\* C29: the status of a processing task only moves pending -> processing ->
\* completed or failed; completed and failed are never left and never
\* overwritten by each other; the results are non-null only in status
\* completed, and the results endpoint returns results only for a completed
\* task (404 for an unknown task, 400 for any other status).
C29_TaskLifeCycle == [][C29_Step]_vars

\* the step in which start_vbt_processing accepts the upload
StartAccepts == unit["start"].pc = "idle" /\ unit'["start"].pc = "locking"

\* the step in which process_vbt_video looks up the chunks 0..total_chunks-1
Assembles == unit["worker"].pc = "assembling" /\ unit'["worker"].pc # "assembling"

\* the step in which the uploader u records a chunk number it had received
Reuploads(u) ==
    /\ unit[u].pc = "reading"
    /\ unit'[u].pc = "idle"
    /\ unit[u].n \in vbt_uploads["u1"].chunks

C30_Step ==
    /\ StartAccepts
          => Cardinality(vbt_uploads["u1"].chunks) >= vbt_uploads["u1"].total_chunks
    /\ Assembles => unit'["worker"].pc = "assembled"
    /\ \A u \in Uploaders :
          Reuploads(u)
              => /\ vbt_uploads'["u1"].chunks = vbt_uploads["u1"].chunks
                 /\ vbt_ret'.progress = Cardinality(vbt_uploads["u1"].chunks)

\* C30: processing is accepted only for a complete upload (the number of
\* stored chunks is at least total_chunks), and a complete upload can always
\* be assembled: process_vbt_video finds a stored chunk for every index
\* 0..total_chunks-1; uploading a chunk number again does not increase the
\* number of chunks received.
C30_CompleteUploadAssembles == [][C30_Step]_vars

====
